---- MODULE Spec2Model ----
(***************************************************************************)
(* The delivery engine of the built-in adapter (src/adapter/olog):        *)
(* Adapter.Log / logDirect / asyncProcessor / Close / With, the bounded   *)
(* asynchronous queue with its overflow policies, the shared write lock   *)
(* and the counters.  Caller goroutines and the background worker are     *)
(* interleaved statement by statement at every access to shared state.    *)
(***************************************************************************)
EXTENDS Integers, Sequences, FiniteSets, TLC

\* ---------------------------------------------------------------- bounds
MaxAdmin == 1         \* ResetStats and SetMinLevel calls in one behaviour, counted with the Log calls
MaxReq == 3        \* Log calls made in one behaviour
MaxQueue == 2      \* largest opts.AsyncQueueSize an engine is built with
MaxHandles == 2    \* the root handle plus the handles derived by With
MaxCloses == 2     \* Close calls made in one behaviour
MaxCopies == 3     \* Log calls made in one behaviour of the field-copy model
MaxArrays == 4     \* backing arrays allocated in the field-copy model
CallerCap == 2     \* capacity of the caller's field slice
MaxStr == 3        \* characters of a string given to the JSON string encoder
MaxBound == 4      \* handles in the binding model: the root and three derived ones
MaxArgs == 2       \* fields passed to one With call
MaxFields == 2     \* event fields of one rendered record
MaxBufs == 2       \* format buffers alive at once in the buffer-pool model
MaxWrites == 2     \* appends to a buffer between its acquire and its release
MaxInstalls == 2   \* SetMetricsCollector calls made in one behaviour
MaxLoggers == 2    \* Logger values: the built one and those derived by Logger.With
MaxEvents == 2     \* events emitted through the facade in one behaviour
MaxSetters == 2    \* Logger.SetMinLevel calls running at once
MaxOwnLogs == 4    \* Log calls made by the producers of the ownership check

\* ------------------------------------------------------ program constants
LevelDebug == -4
LevelInfo == 0

Levels == {LevelDebug, LevelInfo}
Policies == {"DropNewest", "DropOldest", "Block"}
Formats == {"text", "json"}
Msgs == {"ready"}
Times == {"T0"}
\* event field lists a caller passes to Log, and field lists bound by With
FieldLists == {<< [K |-> "code", Kind |-> "int64", Str |-> "", Int64 |-> 200] >>}
\* an error value whose Error method panics, and a field list that holds it
PanickingError == "<Error() panics>"
PanicFieldLists == {<< [K |-> "err", Kind |-> "error", Str |-> PanickingError, Int64 |-> 0] >>}
BindLists == {<< [K |-> "svc", Kind |-> "string", Str |-> "api", Int64 |-> 0] >>}

Callers == {1, 2}          \* caller goroutines
Worker == 0                \* the goroutine started by `go a.asyncProcessor()`
Threads == Callers \cup {Worker}
Root == 1                  \* index of the handle returned by New

VARIABLES
    opts,        \* Options of the engine: Async, AsyncQueueSize, AsyncPolicy, Format
    faults,      \* what the environment may do: "write" when w.Write may return an
                 \* error, "panic" when a field value may panic while it is rendered
    handles,     \* sequence of Adapter values: the root and every clone made by With
    asyncQueue,  \* buffered entries of the channel, head first
    qclosed,     \* the channel has been closed
    wg,          \* counter of the shared sync.WaitGroup
    mu,          \* holder of the shared write mutex, or -1 when free
    pc,          \* position of every goroutine
    loc,         \* locals of the running call of every goroutine
    reqs,        \* every Log call that passed the filter, with what became of it
    filtered,    \* the Log calls that were filtered out: handle, level and minimum level of each
    out,         \* the Write calls received by the output, in order
    enqOrder,    \* ids of the requests accepted into the queue, in enqueue order
    handlerCalls,\* errors passed to opts.ErrorHandler, counted per error
    closeLog,    \* the Close calls that returned, with the requests enqueued before each began
    nCloses,     \* number of Close calls made so far
    nAdmin,      \* number of ResetStats and SetMinLevel calls made so far
    metrics,     \* the calls received by the MetricsCollector, in order
    heap,        \* backing arrays of the slices in use, by address
    frame        \* the values under test when a function is checked on its own

vars == << opts, faults, handles, asyncQueue, qclosed, wg, mu, pc, loc, reqs, filtered,
           out, enqOrder, handlerCalls, closeLog, nCloses, nAdmin, metrics, heap, frame >>

\* the state the delivery engine never touches
mem == << heap, frame >>
\* the state of the delivery engine
engine == << opts, faults, handles, asyncQueue, qclosed, wg, mu, pc, loc, reqs, filtered,
             out, enqOrder, handlerCalls, closeLog, nCloses, nAdmin, metrics >>

\* ------------------------------------------------------------- rendering
\* A rendered record is the sequence of the pieces written to the buffer;
\* the bytes of the record are their concatenation.
RECURSIVE Concat(_)
Concat(ss) == IF ss = << >> THEN << >> ELSE Head(ss) \o Concat(Tail(ss))

Digit(d) == CASE d = 0 -> "0" [] d = 1 -> "1" [] d = 2 -> "2" [] d = 3 -> "3"
              [] d = 4 -> "4" [] d = 5 -> "5" [] d = 6 -> "6" [] d = 7 -> "7"
              [] d = 8 -> "8" [] OTHER -> "9"

\* appendUint64: the decimal digits, most significant first.
RECURSIVE appendUint64(_)
appendUint64(v) == IF v < 10 THEN << Digit(v) >>
                   ELSE appendUint64(v \div 10) \o << Digit(v % 10) >>

\* appendInt64: a minus sign for a negative number, then the digits.
appendInt64(v) == IF v < 0 THEN << "-" >> \o appendUint64(-v) ELSE appendUint64(v)

\* appendRFC3339Nano on the instants of Times.
appendRFC3339Nano(at) == CASE at = "T0" -> << "2025-01-01T00:00:00Z" >>
                           [] at = "E1" -> << "1970-01-01T00:00:01Z" >>
                           [] at = "E2" -> << "1970-01-01T00:00:02Z" >>
                           [] OTHER -> << "0001-01-01T00:00:00Z" >>

\* the strings of the model that hold a control character, a space or a quote
NeedQuoting == {"state changed"}

\* appendQuoted on strings that need no escaping.
appendQuoted(s) == << "\"", s, "\"" >>

\* appendTextString: quoted only when the string needs it.
appendTextString(s) == IF s \in NeedQuoting THEN appendQuoted(s) ELSE << s >>

appendTextValue(f) ==
    CASE f.Kind = "string" -> appendTextString(f.Str)
      [] f.Kind = "int64" -> appendInt64(f.Int64)
      [] f.Kind = "error" -> appendQuoted(f.Str)
      [] OTHER -> << "null" >>

\* ' key=value'
appendTextField(f) == << " ", f.K, "=" >> \o appendTextValue(f)

\* ',"key":value'
appendJSONField(f) ==
    << "," >> \o appendQuoted(f.K) \o << ":" >> \o
      (CASE f.Kind = "string" -> appendQuoted(f.Str)
         [] f.Kind = "int64" -> appendInt64(f.Int64)
         [] f.Kind = "error" -> appendQuoted(f.Str)
         [] OTHER -> << "null" >>)

encodeBoundText(bound) == Concat([i \in 1..Len(bound) |-> appendTextField(bound[i])])
encodeBoundJSON(bound) == Concat([i \in 1..Len(bound) |-> appendJSONField(bound[i])])

\* a text line with the event fields ahead of the bound prefix
writeTextLineFieldsFirst(level, msg, at, boundPrefix, fields) ==
    << "ts=" >> \o appendRFC3339Nano(at)
        \o << " level=" >> \o appendInt64(level)
        \o << " msg=" >> \o appendTextString(msg)
        \o Concat([i \in 1..Len(fields) |-> appendTextField(fields[i])])
        \o boundPrefix

writeTextLine(level, msg, at, boundPrefix, fields) ==
    << "ts=" >> \o appendRFC3339Nano(at)
        \o << " level=" >> \o appendInt64(level)
        \o << " msg=" >> \o appendTextString(msg)
        \o boundPrefix
        \o Concat([i \in 1..Len(fields) |-> appendTextField(fields[i])])

writeJSONLine(level, msg, at, boundPrefix, fields) ==
    << "{", "\"ts\":\"" >> \o appendRFC3339Nano(at) \o << "\"" >>
        \o << ",\"level\":" >> \o appendInt64(level)
        \o << ",\"msg\":" >> \o appendQuoted(msg)
        \o boundPrefix
        \o Concat([i \in 1..Len(fields) |-> appendJSONField(fields[i])])
        \o << "}" >>

\* Formatter.FormatLogLine: one record and its trailing newline.
FormatLogLine(format, level, msg, at, boundPrefix, fields) ==
    IF format = "json"
    THEN writeJSONLine(level, msg, at, boundPrefix, fields) \o << "\n" >>
    ELSE writeTextLine(level, msg, at, boundPrefix, fields) \o << "\n" >>

\* ------------------------------------------------------------ the state
NoEntry == [id |-> 0, level |-> 0, msg |-> "", at |-> "", fields |-> << >>, pooled |-> FALSE]
\* what a With call has read of its receiver so far: the fields to bind, the
\* minimum level of the options, and the counter of a.st it copied first
NoPart == [fs |-> << >>, min |-> 0, first |-> "", val |-> 0]
NoLoc == [op |-> "none", h |-> 0, entry |-> NoEntry, buf |-> << >>, snap |-> {}, again |-> FALSE,
          part |-> NoPart]

\* NewWithWriterFactory: the root Adapter.
NewAdapter ==
    [ bound |-> << >>, preBoundText |-> << >>, preBoundJSON |-> << >>,
      stopped |-> FALSE, loggedErrors |-> 0, dropped |-> 0,
      MinLevel |-> LevelInfo, dropped0 |-> 0 ]

\* The state NewWithWriterFactory leaves: no queue and no worker without
\* opts.Async; with it an empty queue and a worker goroutine that has been
\* started and has not run yet.
InitAdapter ==
    /\ opts \in { o \in [Async : BOOLEAN, AsyncQueueSize : 1..MaxQueue,
                            AsyncPolicy : Policies, Format : Formats] :
                    /\ (~o.Async => (o.AsyncPolicy = "DropNewest" /\ o.AsyncQueueSize = 1))
                    /\ (o.Async => o.Format = "text") }
    /\ handles = << NewAdapter >>
    /\ asyncQueue = << >>
    /\ qclosed = FALSE
    /\ wg = 0
    /\ mu = -1
    /\ pc = [t \in Threads |->
               IF t = Worker THEN (IF opts.Async THEN "spawned" ELSE "none") ELSE "idle"]
    /\ loc = [t \in Threads |-> NoLoc]
    /\ reqs = << >>
    /\ filtered = << >>
    /\ out = << >>
    /\ enqOrder = << >>
    /\ handlerCalls = [full |-> 0, write |-> 0, panic |-> 0]
    /\ closeLog = {}
    /\ nCloses = 0
    /\ nAdmin = 0
    /\ metrics = << >>

\* The engine alone: no memory is modelled below the field lists.
InitEngine == InitAdapter /\ heap = << >> /\ frame = << >>

\* A writer that accepts every record.
Init == InitEngine /\ faults = {}

\* ------------------------------------------------------------ variants
\* Faulty variants of the engine's steps; a property that constrains a step
\* fails when the step is replaced by its variant.
EnqueueAtHead(q, e) == << e >> \o q
DequeueAtTail(q) == SubSeq(q, 1, Len(q) - 1)
LockAlwaysFree == TRUE
CountDropErrorNot(a) == a
CountPanicTwice(a) == [a EXCEPT !.loggedErrors = @ + 2]
CountWriteErrorAsDrop(a) == [a EXCEPT !.loggedErrors = @ + 1, !.dropped = @ + 1]
ObservationNoBytes(id, level, n, err, kind) ==
    [id |-> id, level |-> level, n |-> 0, err |-> err, kind |-> kind]

\* ------------------------------------------------------------ helpers
SetFate(id, f) == [reqs EXCEPT ![id].fate = f]
Goto(t, p) == [pc EXCEPT ![t] = p]
Return(t) == /\ pc' = [pc EXCEPT ![t] = "idle"]
             /\ loc' = [loc EXCEPT ![t] = NoLoc]

\* A caller goroutine that can make the next call. Idle callers are
\* interchangeable, so the lowest-numbered one makes it.
CanCall(t) ==
    /\ pc[t] = "idle"
    /\ \A u \in Callers : u < t => pc[u] # "idle"

\* Log, line 185: the level filter.
Filtered(a, level) == level < a.MinLevel

\* Log, line 188: the asynchronous path is taken.
UseAsync(a) == opts.Async /\ ~a.stopped

\* copyFieldsPooled: a copy of the caller's slice, always from the pool.
copyFieldsPooled(fields) == [c |-> fields, pooled |-> TRUE]

\* a channel send that does not block: there is room in the buffer.
HasRoom(q) == Len(q) < opts.AsyncQueueSize

\* `a.asyncQueue <- entry`: the entry joins the tail.
Enqueue(q, e) == Append(q, e)

\* `ev := <-a.asyncQueue`: the head leaves.
Dequeue(q) == Tail(q)

\* Log, lines 197-236: where the overflow policy sends a call that found the queue full.
OverflowStep(policy) ==
    CASE policy = "DropNewest" -> "drop"
      [] policy = "DropOldest" -> "steal"
      [] OTHER -> "block"

\* Log, lines 199 and 222: a.st.dropped.Add(1).
CountDrop(a) == [a EXCEPT !.dropped = @ + 1]

\* Log, lines 200 and 223: a.st.loggedErrors.Add(1).
CountDropError(a) == [a EXCEPT !.loggedErrors = @ + 1]

\* logDirect, line 255 and line 291: the error counter of the receiver goes up by one.
CountPanic(a) == [a EXCEPT !.loggedErrors = @ + 1]
CountWriteError(a) == [a EXCEPT !.loggedErrors = @ + 1]

\* mc.LoggedMessage(level, durMS, n, err): the call the observer receives.
\* The recover path reports no bytes and the formatting error (line 258),
\* the write path reports what w.Write returned (line 294).
Observation(id, level, n, err, kind) ==
    [id |-> id, level |-> level, n |-> n, err |-> err, kind |-> kind]

\* f.Err.Error() panics while a field is rendered (appendTextValue and
\* appendJSONField, case KindError).
RenderPanics(fields) ==
    \E i \in 1..Len(fields) : fields[i].Kind = "error" /\ fields[i].Str = PanickingError

\* the field lists a caller may pass
LogFieldLists == IF "panic" \in faults THEN FieldLists \cup PanicFieldLists ELSE FieldLists

\* w.Write(buf.b): what the writer returns, (n, err)
WriteResults(b) ==
    IF "write" \in faults
    THEN {[n |-> Len(b), err |-> FALSE], [n |-> 0, err |-> TRUE]}
    ELSE {[n |-> Len(b), err |-> FALSE]}

\* a.mu.Lock() can proceed.
MuFree == mu = -1

\* The Adapter a goroutine runs logDirect on: the worker was started on the
\* root (`go a.asyncProcessor()` in NewWithWriterFactory), a caller runs it on
\* the handle it called Log on.
Receiver(t, h) == IF t = Worker THEN Root ELSE h

\* logDirect, lines 263-268: the pre-encoded prefix of the receiver for the format.
BoundPrefix(a) == IF opts.Format = "json" THEN a.preBoundJSON ELSE a.preBoundText

\* logDirect, lines 250-270: the record rendered into the buffer.
Render(a, e) == FormatLogLine(opts.Format, e.level, e.msg, e.at, BoundPrefix(a), e.fields)

\* ------------------------------------------------------------------ Log
\* Adapter.Log up to its first operation on shared state after the stopped
\* check: the filter, the stopped check, then either the copy of the fields
\* (asynchronous path) or logDirect up to a.mu.Lock() (synchronous path), or
\* up to the panic of a field value while the record is rendered.
Log(t) ==
    /\ CanCall(t)
    /\ Len(reqs) + Len(filtered) + nAdmin < MaxReq
    /\ \E h \in 1..Len(handles), level \in Levels, msg \in Msgs, at \in Times,
          fields \in LogFieldLists :
         LET a == handles[h]
             id == Len(reqs) + 1
             r == [h |-> h, level |-> level, min |-> a.MinLevel, msg |-> msg, at |-> at,
                   fields |-> fields, seq |-> 0, fate |-> "pending"]
             args == [id |-> id, level |-> level, msg |-> msg, at |-> at,
                      fields |-> fields, pooled |-> FALSE]
         IN IF Filtered(a, level)
            THEN /\ filtered' = Append(filtered, [h |-> h, level |-> level, min |-> a.MinLevel])
                 /\ UNCHANGED << pc, loc, reqs >>
            ELSE IF UseAsync(a)
            THEN LET cp == copyFieldsPooled(fields)
                 IN /\ reqs' = Append(reqs, r)
                    /\ pc' = Goto(t, "send")
                    /\ loc' = [loc EXCEPT ![t] =
                          [NoLoc EXCEPT !.op = "log", !.h = h,
                             !.entry = [args EXCEPT !.fields = cp.c, !.pooled = cp.pooled]]]
                    /\ UNCHANGED filtered
            ELSE /\ reqs' = Append(reqs, r)
                 /\ pc' = Goto(t, IF RenderPanics(fields) THEN "ld_recover" ELSE "ld_lock")
                 /\ loc' = [loc EXCEPT ![t] =
                       [NoLoc EXCEPT !.op = "log", !.h = h, !.entry = args,
                          !.buf = IF RenderPanics(fields) THEN << >>
                                  ELSE Render(handles[Receiver(t, h)], args)]]
                 /\ UNCHANGED filtered
    /\ UNCHANGED << opts, faults, mem, metrics, handles, asyncQueue, qclosed, wg, mu, out, enqOrder,
                    handlerCalls, closeLog, nCloses, nAdmin >>

\* The first send attempt of a request: its place in arrival order at the queue.
Arrive(id) == [reqs EXCEPT ![id].seq = Cardinality({i \in 1..Len(reqs) : reqs[i].seq > 0}) + 1]

\* Log, lines 193-197: `select { case a.asyncQueue <- entry: return; default: ... }`.
\* A send on a closed channel panics, inside a select too.
TrySend(t) ==
    /\ pc[t] = "send"
    /\ LET e == loc[t].entry
       IN IF qclosed
          THEN /\ pc' = Goto(t, "panicked")
               /\ reqs' = [Arrive(e.id) EXCEPT ![e.id].fate = "lost"]
               /\ UNCHANGED << loc, asyncQueue, enqOrder >>
          ELSE IF HasRoom(asyncQueue)
          THEN /\ asyncQueue' = Enqueue(asyncQueue, e)
               /\ enqOrder' = Append(enqOrder, e.id)
               /\ reqs' = [Arrive(e.id) EXCEPT ![e.id].fate = "queued"]
               /\ Return(t)
          ELSE /\ pc' = Goto(t, OverflowStep(opts.AsyncPolicy))
               /\ reqs' = Arrive(e.id)
               /\ UNCHANGED << loc, asyncQueue, enqOrder >>
    /\ UNCHANGED << opts, faults, mem, metrics, handles, qclosed, wg, mu, filtered, out, handlerCalls,
                    closeLog, nCloses, nAdmin >>

\* Log, lines 199 and 222: the incoming request is discarded; first the
\* dropped counter of the receiver is raised.
Drop(t) ==
    /\ pc[t] = "drop"
    /\ handles' = [handles EXCEPT ![loc[t].h] = CountDrop(@)]
    /\ pc' = Goto(t, "drop_error")
    /\ UNCHANGED << opts, faults, mem, metrics, asyncQueue, qclosed, wg, mu, loc, reqs, filtered, out,
                    enqOrder, handlerCalls, closeLog, nCloses, nAdmin >>

\* Log, lines 200 and 223: then its error counter.
DropError(t) ==
    /\ pc[t] = "drop_error"
    /\ handles' = [handles EXCEPT ![loc[t].h] = CountDropError(@)]
    /\ pc' = Goto(t, "drop_report")
    /\ UNCHANGED << opts, faults, mem, metrics, asyncQueue, qclosed, wg, mu, loc, reqs, filtered, out,
                    enqOrder, handlerCalls, closeLog, nCloses, nAdmin >>

\* Log, lines 201-205 and 224-228: the copy of the fields is released, the
\* error handler is called with errAsyncQueueFull and Log returns.
DropReport(t) ==
    /\ pc[t] = "drop_report"
    /\ handlerCalls' = [handlerCalls EXCEPT !.full = @ + 1]
    /\ reqs' = SetFate(loc[t].entry.id, "dropped")
    /\ Return(t)
    /\ UNCHANGED << opts, faults, mem, metrics, handles, asyncQueue, qclosed, wg, mu, filtered, out,
                    enqOrder, closeLog, nCloses, nAdmin >>

\* Log, lines 208-216: DropOldest takes one entry off the channel without
\* blocking; an empty channel, open or closed, yields nothing to release.
Steal(t) ==
    /\ pc[t] = "steal"
    /\ IF asyncQueue # << >>
       THEN /\ asyncQueue' = Dequeue(asyncQueue)
            /\ reqs' = SetFate(Head(asyncQueue).id, "evicted")
       ELSE UNCHANGED << asyncQueue, reqs >>
    /\ pc' = Goto(t, "resend")
    /\ UNCHANGED << opts, faults, mem, metrics, handles, qclosed, wg, mu, loc, filtered, out, enqOrder,
                    handlerCalls, closeLog, nCloses, nAdmin >>

\* Log, lines 217-229: the second non-blocking send of DropOldest.
Resend(t) ==
    /\ pc[t] = "resend"
    /\ LET e == loc[t].entry
       IN IF qclosed
          THEN /\ pc' = Goto(t, "panicked")
               /\ reqs' = SetFate(e.id, "lost")
               /\ UNCHANGED << loc, asyncQueue, enqOrder >>
          ELSE IF HasRoom(asyncQueue)
          THEN /\ asyncQueue' = Enqueue(asyncQueue, e)
               /\ enqOrder' = Append(enqOrder, e.id)
               /\ reqs' = SetFate(e.id, "queued")
               /\ Return(t)
          ELSE /\ pc' = Goto(t, "drop")
               /\ UNCHANGED << loc, asyncQueue, enqOrder, reqs >>
    /\ UNCHANGED << opts, faults, mem, metrics, handles, qclosed, wg, mu, filtered, out, handlerCalls,
                    closeLog, nCloses, nAdmin >>

\* Faulty variant of the blocking send: it does not wait for a free slot.
BlockSendNoWait(t) ==
    /\ pc[t] = "block"
    /\ asyncQueue' = Append(asyncQueue, loc[t].entry)
    /\ enqOrder' = Append(enqOrder, loc[t].entry.id)
    /\ reqs' = SetFate(loc[t].entry.id, "queued")
    /\ Return(t)
    /\ UNCHANGED << opts, faults, mem, metrics, handles, qclosed, wg, mu, filtered, out, handlerCalls,
                    closeLog, nCloses, nAdmin >>

\* Log, lines 230-235: the blocking send of Block. It waits while the channel
\* is full and open, and panics once the channel is closed.
BlockSend(t) ==
    /\ pc[t] = "block"
    /\ qclosed \/ HasRoom(asyncQueue)
    /\ LET e == loc[t].entry
       IN IF qclosed
          THEN /\ pc' = Goto(t, "panicked")
               /\ reqs' = SetFate(e.id, "lost")
               /\ UNCHANGED << loc, asyncQueue, enqOrder >>
          ELSE /\ asyncQueue' = Enqueue(asyncQueue, e)
               /\ enqOrder' = Append(enqOrder, e.id)
               /\ reqs' = SetFate(e.id, "queued")
               /\ Return(t)
    /\ UNCHANGED << opts, faults, mem, metrics, handles, qclosed, wg, mu, filtered, out, handlerCalls,
                    closeLog, nCloses, nAdmin >>

\* ------------------------------------------------------------ logDirect
\* logDirect, line 282: a.mu.Lock().
LdLock(t) ==
    /\ pc[t] = "ld_lock"
    /\ MuFree
    /\ mu' = t
    /\ pc' = Goto(t, "ld_write")
    /\ UNCHANGED << opts, faults, mem, metrics, handles, asyncQueue, qclosed, wg, loc, reqs, filtered, out,
                    enqOrder, handlerCalls, closeLog, nCloses, nAdmin >>

\* logDirect, lines 272-280: the writer factory has no writer for the level;
\* logDirect returns after the render with no lock, no write and no report
LdNoWriter(t) ==
    /\ pc[t] = "ld_lock"
    /\ "nowriter" \in faults
    /\ reqs' = SetFate(loc[t].entry.id, "nowriter")
    /\ pc' = Goto(t, IF t = Worker THEN "recv" ELSE "idle")
    /\ loc' = [loc EXCEPT ![t] = NoLoc]
    /\ UNCHANGED << opts, faults, mem, metrics, handles, handlerCalls, asyncQueue, qclosed, wg, mu,
                    filtered, out, enqOrder, closeLog, nCloses, nAdmin >>

\* logDirect, lines 283-284: w.Write(buf.b) returns and the lock is released.
LdWrite(t) ==
    /\ pc[t] = "ld_write"
    /\ \E res \in WriteResults(loc[t].buf) :
         /\ out' = Append(out, [id |-> loc[t].entry.id, b |-> loc[t].buf, by |-> t,
                                 n |-> res.n, err |-> res.err])
         /\ reqs' = SetFate(loc[t].entry.id, IF res.err THEN "writeerr" ELSE "written")
    /\ mu' = -1
    /\ pc' = Goto(t, "ld_report")
    /\ UNCHANGED << opts, faults, mem, metrics, handles, handlerCalls, asyncQueue, qclosed, wg, loc,
                    filtered, enqOrder, closeLog, nCloses, nAdmin >>

\* what Write returned for the request goroutine t is delivering
Written(t) == CHOOSE o \in {out[i] : i \in 1..Len(out)} : o.id = loc[t].entry.id

\* logDirect, lines 286-294, after the lock is released: a write error is
\* counted and handed to the error handler, and the collector is told. The
\* worker then releases the entry's fields and goes back to the channel
\* (lines 302-304).
LdReport(t) ==
    /\ pc[t] = "ld_report"
    /\ metrics' = Append(metrics,
           Observation(loc[t].entry.id, loc[t].entry.level, Written(t).n, Written(t).err, "write"))
    /\ IF Written(t).err
       THEN /\ handles' = [handles EXCEPT ![Receiver(t, loc[t].h)] = CountWriteError(@)]
            /\ handlerCalls' = [handlerCalls EXCEPT !.write = @ + 1]
       ELSE UNCHANGED << handles, handlerCalls >>
    /\ pc' = Goto(t, IF t = Worker THEN "recv" ELSE "idle")
    /\ loc' = [loc EXCEPT ![t] = NoLoc]
    /\ UNCHANGED << opts, faults, mem, mu, out, reqs, asyncQueue, qclosed, wg, filtered, enqOrder,
                    closeLog, nCloses, nAdmin >>

\* logDirect, lines 251-261: the deferred recover after a panic of
\* FormatLogLine. The error is counted, handed to the error handler and
\* reported to the observer; nothing is written and the deferred putBuf
\* returns the buffer. The caller's Log returns; the worker goes back to the
\* channel.
LdRecover(t) ==
    /\ pc[t] = "ld_recover"
    /\ handles' = [handles EXCEPT ![Receiver(t, loc[t].h)] = CountPanic(@)]
    /\ handlerCalls' = [handlerCalls EXCEPT !.panic = @ + 1]
    /\ metrics' = Append(metrics,
           Observation(loc[t].entry.id, loc[t].entry.level, 0, TRUE, "panic"))
    /\ reqs' = SetFate(loc[t].entry.id, "renderpanic")
    /\ pc' = Goto(t, IF t = Worker THEN "recv" ELSE "idle")
    /\ loc' = [loc EXCEPT ![t] = NoLoc]
    /\ UNCHANGED << opts, faults, mem, asyncQueue, qclosed, wg, mu, filtered, out, enqOrder,
                    closeLog, nCloses, nAdmin >>

\* ------------------------------------------------------ asyncProcessor
\* asyncProcessor, line 298: a.wg.Add(1), the first statement of the goroutine.
WorkerStart ==
    /\ pc[Worker] = "spawned"
    /\ wg' = wg + 1
    /\ pc' = Goto(Worker, "recv")
    /\ UNCHANGED << opts, faults, mem, metrics, handles, asyncQueue, qclosed, mu, loc, reqs, filtered, out,
                    enqOrder, handlerCalls, closeLog, nCloses, nAdmin >>

\* asyncProcessor, lines 300-301: `for e := range a.asyncQueue` receives an
\* entry and logDirect runs up to a.mu.Lock().
WorkerRecv ==
    /\ pc[Worker] = "recv"
    /\ asyncQueue # << >>
    /\ asyncQueue' = Dequeue(asyncQueue)
    /\ LET e == Head(asyncQueue)
       IN /\ loc' = [loc EXCEPT ![Worker] =
                      [NoLoc EXCEPT !.op = "work", !.h = Root, !.entry = e,
                         !.buf = IF RenderPanics(e.fields) THEN << >>
                                 ELSE Render(handles[Receiver(Worker, Root)], e)]]
          /\ reqs' = SetFate(e.id, "taken")
    /\ pc' = Goto(Worker, IF RenderPanics(Head(asyncQueue).fields) THEN "ld_recover" ELSE "ld_lock")
    /\ UNCHANGED << opts, faults, mem, metrics, handles, qclosed, wg, mu, filtered, out, enqOrder,
                    handlerCalls, closeLog, nCloses, nAdmin >>

\* asyncProcessor, lines 299-300: the channel is closed and drained, the loop
\* ends and the deferred a.wg.Done() runs.
WorkerExit ==
    /\ pc[Worker] = "recv"
    /\ asyncQueue = << >>
    /\ qclosed
    /\ wg' = wg - 1
    /\ pc' = Goto(Worker, "exited")
    /\ UNCHANGED << opts, faults, mem, metrics, handles, asyncQueue, qclosed, mu, loc, reqs, filtered, out,
                    enqOrder, handlerCalls, closeLog, nCloses, nAdmin >>

\* ---------------------------------------------------------------- Close
\* Close, lines 140-141: nothing to do without a queue; otherwise the
\* receiver's own stopped flag is set.
Close(t) ==
    /\ CanCall(t)
    /\ nCloses < MaxCloses
    /\ nCloses' = nCloses + 1
    /\ UNCHANGED nAdmin
    /\ \E h \in 1..Len(handles) :
         IF ~opts.Async
         THEN /\ closeLog' = closeLog \cup {[h |-> h, snap |-> {}]}
              /\ UNCHANGED << handles, pc, loc >>
         ELSE /\ handles' = [handles EXCEPT ![h].stopped = TRUE]
              /\ loc' = [loc EXCEPT ![t] =
                    [NoLoc EXCEPT !.op = "close", !.h = h,
                       !.snap = {enqOrder[i] : i \in 1..Len(enqOrder)},
                       !.again = \E c \in closeLog : c.h = h]]
              /\ pc' = Goto(t, "close_chan")
              /\ UNCHANGED closeLog
    /\ UNCHANGED << opts, faults, mem, metrics, asyncQueue, qclosed, wg, mu, reqs, filtered, out, enqOrder,
                    handlerCalls >>

\* Close, line 142: close(a.asyncQueue); closing a closed channel panics.
CloseChan(t) ==
    /\ pc[t] = "close_chan"
    /\ IF qclosed
       THEN /\ pc' = Goto(t, "panicked")
            /\ UNCHANGED qclosed
       ELSE /\ qclosed' = TRUE
            /\ pc' = Goto(t, "close_wait")
    /\ UNCHANGED << opts, faults, mem, metrics, handles, asyncQueue, wg, mu, loc, reqs, filtered, out,
                    enqOrder, handlerCalls, closeLog, nCloses, nAdmin >>

\* Close, lines 143-145: a.wg.Wait() returns once the counter is zero.
CloseWait(t) ==
    /\ pc[t] = "close_wait"
    /\ wg = 0
    /\ closeLog' = closeLog \cup {[h |-> loc[t].h, snap |-> loc[t].snap]}
    /\ Return(t)
    /\ UNCHANGED << opts, faults, mem, metrics, handles, asyncQueue, qclosed, wg, mu, reqs, filtered, out,
                    enqOrder, handlerCalls, nCloses, nAdmin >>

\* ----------------------------------------------------------------- With
\* With, lines 150-181: the clone. It shares mu, wg, asyncQueue and the writer
\* by reference; opts, the counters and the stopped flag are values of the
\* new struct. stopped starts false; the options are the ones read at line
\* 153 and the counters the values read at line 180. dropped0 is a history
\* variable: the value the dropped counter started with.
Clone(a, fs, min, le, dr) ==
    LET b == a.bound \o fs
    IN [ bound |-> b,
         preBoundText |-> encodeBoundText(b),
         preBoundJSON |-> encodeBoundJSON(b),
         stopped |-> FALSE,
         loggedErrors |-> le,
         dropped |-> dr,
         MinLevel |-> min,
         dropped0 |-> dr ]

\* the With calls that have not returned
Cloning == {t \in Callers : pc[t] \in {"with_st", "with_st2"}}

\* With, lines 151-161: the struct literal reads a.opts, a plain read of the
\* word SetMinLevel writes.
With(t) ==
    /\ CanCall(t)
    /\ Len(handles) + Cardinality(Cloning) < MaxHandles
    /\ \E h \in 1..Len(handles), fs \in BindLists :
         loc' = [loc EXCEPT ![t] =
                   [NoLoc EXCEPT !.op = "with", !.h = h,
                      !.part = [NoPart EXCEPT !.fs = fs, !.min = handles[h].MinLevel]]]
    /\ pc' = Goto(t, "with_st")
    /\ UNCHANGED << opts, faults, mem, metrics, handles, asyncQueue, qclosed, wg, mu, reqs, filtered, out,
                    enqOrder, handlerCalls, closeLog, nCloses, nAdmin >>

\* With, line 180: `child.st = a.st` copies the two atomic counters with plain
\* reads while other goroutines may Add to them or Store into them: each
\* word is read at a moment of its own, in either order. This is the first.
WithStats(t) ==
    /\ pc[t] = "with_st"
    /\ \E first \in {"loggedErrors", "dropped"} :
         loc' = [loc EXCEPT ![t].part.first = first, ![t].part.val = handles[loc[t].h][first]]
    /\ pc' = Goto(t, "with_st2")
    /\ UNCHANGED << opts, faults, mem, metrics, handles, asyncQueue, qclosed, wg, mu, reqs, filtered, out,
                    enqOrder, handlerCalls, closeLog, nCloses, nAdmin >>

\* With, lines 180-181: the other word is read and the clone is returned.
WithReturn(t) ==
    /\ pc[t] = "with_st2"
    /\ LET a == handles[loc[t].h]
           part == loc[t].part
           le == IF part.first = "loggedErrors" THEN part.val ELSE a.loggedErrors
           dr == IF part.first = "dropped" THEN part.val ELSE a.dropped
       IN handles' = Append(handles, Clone(a, part.fs, part.min, le, dr))
    /\ Return(t)
    /\ UNCHANGED << opts, faults, mem, metrics, asyncQueue, qclosed, wg, mu, reqs, filtered, out,
                    enqOrder, handlerCalls, closeLog, nCloses, nAdmin >>

\* ------------------------------------------ ResetStats and SetMinLevel
\* ResetStats, line 137, over stats.reset: first loggedErrors.Store(0)
\* (stats.go:24).
ResetStats(t) ==
    /\ CanCall(t)
    /\ nAdmin < MaxAdmin /\ Len(reqs) + Len(filtered) + nAdmin < MaxReq
    /\ nAdmin' = nAdmin + 1
    /\ \E h \in 1..Len(handles) :
         /\ handles' = [handles EXCEPT ![h].loggedErrors = 0]
         /\ loc' = [loc EXCEPT ![t] = [NoLoc EXCEPT !.op = "reset", !.h = h]]
    /\ pc' = Goto(t, "reset_dropped")
    /\ UNCHANGED << opts, faults, mem, metrics, asyncQueue, qclosed, wg, mu, reqs, filtered,
                    out, enqOrder, handlerCalls, closeLog, nCloses >>

\* stats.reset, then dropped.Store(0) (stats.go:25), and ResetStats returns.
\* dropped0 moves down by what is wiped, so that dropped - dropped0 stays the
\* number of Adds made through the handle.
ResetDropped(t) ==
    /\ pc[t] = "reset_dropped"
    /\ handles' = [handles EXCEPT ![loc[t].h].dropped = 0,
                                  ![loc[t].h].dropped0 = @ - handles[loc[t].h].dropped]
    /\ Return(t)
    /\ UNCHANGED << opts, faults, mem, metrics, asyncQueue, qclosed, wg, mu, reqs, filtered,
                    out, enqOrder, handlerCalls, closeLog, nCloses, nAdmin >>

\* SetMinLevel, line 308: `a.opts.MinLevel = l`, a plain write of the
\* receiver's own copy of the options; Log reads the word at line 185.
SetMinLevel(t) ==
    /\ CanCall(t)
    /\ nAdmin < MaxAdmin /\ Len(reqs) + Len(filtered) + nAdmin < MaxReq
    /\ nAdmin' = nAdmin + 1
    /\ \E h \in 1..Len(handles), l \in Levels :
         /\ handles[h].MinLevel # l
         /\ handles' = [handles EXCEPT ![h].MinLevel = l]
    /\ UNCHANGED << opts, faults, mem, metrics, asyncQueue, qclosed, wg, mu, pc, loc, reqs, filtered,
                    out, enqOrder, handlerCalls, closeLog, nCloses >>

\* ------------------------------------------------------------------ Next
Next ==
    \/ \E t \in Callers :
         \/ Log(t) \/ TrySend(t) \/ Steal(t) \/ Resend(t) \/ BlockSend(t)
         \/ Drop(t) \/ DropError(t) \/ DropReport(t)
         \/ Close(t) \/ CloseChan(t) \/ CloseWait(t)
         \/ With(t) \/ WithStats(t) \/ WithReturn(t)
         \/ ResetStats(t) \/ ResetDropped(t) \/ SetMinLevel(t)
    \/ \E t \in Threads : LdLock(t) \/ LdWrite(t) \/ LdReport(t)
    \/ WorkerStart \/ WorkerRecv \/ WorkerExit

Spec == Init /\ [][Next]_vars

\* ============================================================ properties
\* Views of the state the properties are stated on.
Range(s) == {s[i] : i \in 1..Len(s)}
Ids(entries) == [i \in 1..Len(entries) |-> entries[i].id]
IsWorkerWrite(o) == o.by = Worker
WorkerWritten == Ids(SelectSeq(out, IsWorkerWrite))
InWorker == IF pc[Worker] \in {"ld_lock", "ld_write", "ld_recover"} THEN << loc[Worker].entry.id >> ELSE << >>
NotEvicted(id) == reqs[id].fate # "evicted"
WritingThreads == {t \in Threads : pc[t] = "ld_write"}
WholeRecord(b) ==
    /\ Len(b) > 0
    /\ b[Len(b)] = "\n"
    /\ \A i \in 1..(Len(b) - 1) : b[i] # "\n"

\* C1: no Log call ever fails toward its caller, whatever the interleaving
\* with Close: no Log call sends into the closed queue (a send on a closed
\* channel panics in the caller's goroutine).
C1_LogNeverFails ==
    \A t \in Callers : ~(pc[t] = "panicked" /\ loc[t].op = "log")

\* C2: when an asynchronous Close has returned, the worker has exited and
\* every request that was enqueued before that Close began, and was not
\* evicted, has been rendered and its write attempted.
C2_CloseFlushes ==
    \A c \in closeLog :
        opts.Async =>
            /\ pc[Worker] = "exited"
            /\ \A id \in c.snap : reqs[id].fate \in {"written", "writeerr", "evicted"}

\* C3: the worker is the only writer of enqueued requests and writes them in
\* the order they were enqueued: what it has written, followed by what it is
\* writing, followed by what is still queued, is the enqueue order without
\* the requests DropOldest evicted.
C3_WrittenInEnqueueOrder ==
    /\ WorkerWritten \o InWorker \o Ids(asyncQueue) = SelectSeq(enqOrder, NotEvicted)
    /\ \A i \in 1..Len(out) : out[i].id \in Range(enqOrder) => out[i].by = Worker
    /\ \A i, j \in 1..Len(enqOrder) : enqOrder[i] = enqOrder[j] => i = j

\* C3 witness: on a queue of two, DropOldest has evicted a request and the
\* worker has written two others.
C3_Witness ==
    /\ opts.AsyncPolicy = "DropOldest"
    /\ Len(WorkerWritten) >= 2
    /\ \E id \in 1..Len(reqs) : reqs[id].fate = "evicted"

\* C4: every record written for a request logged through a handle carries
\* that handle's bound prefix between the message and the event's fields,
\* whether the request was written by the caller or went through the queue.
C4_BoundPrefixWritten ==
    \A i \in 1..Len(out) :
        LET r == reqs[out[i].id]
        IN out[i].b = FormatLogLine(opts.Format, r.level, r.msg, r.at,
                                    BoundPrefix(handles[r.h]), r.fields)

\* C5: at most one Write call is in progress at any time, callers and worker
\* of every handle taking the same lock around it, and each record reaches
\* the writer in exactly one Write call holding the whole record and its
\* trailing newline.
C5_WritesSerialized ==
    /\ Cardinality(WritingThreads) <= 1
    /\ \A t \in WritingThreads : mu = t
    /\ \A i \in 1..Len(out) : WholeRecord(out[i].b)
    /\ \A i, j \in 1..Len(out) : out[i].id = out[j].id => i = j

\* C5 witness: the worker is inside Write while a caller that logs through a
\* derived handle waits for the lock, after an earlier record was written.
C5_Witness ==
    /\ pc[Worker] = "ld_write"
    /\ \E t \in Callers : pc[t] = "ld_lock" /\ loc[t].h # Root
    /\ Len(out) >= 1

\* C6: Close is idempotent: a second Close of a handle returns normally and
\* does not close the queue a second time (closing a closed channel panics).
C6_CloseIdempotent ==
    \A t \in Callers : ~(pc[t] = "panicked" /\ loc[t].op = "close" /\ loc[t].again)

\* Views for the overflow policies.
Arrived == {i \in 1..Len(reqs) : reqs[i].seq > 0}
DroppedVia(h) == {i \in 1..Len(reqs) : reqs[i].h = h /\ reqs[i].fate = "dropped"}
Dropped == {i \in 1..Len(reqs) : reqs[i].fate = "dropped"}
Min(a, b) == IF a < b THEN a ELSE b
PosEnq(id) == CHOOSE i \in 1..Len(enqOrder) : enqOrder[i] = id
\* the engine is open (no Close has begun) and the worker has dequeued nothing
Undrained == opts.Async /\ nCloses = 0 /\ out = << >> /\ InWorker = << >>
\* the callers that have raised the dropped counter of handle h, and the
\* error counter, for a request they have not finished discarding
CountedDropVia(h) == {t \in Callers : pc[t] \in {"drop_error", "drop_report"} /\ loc[t].h = h}
CountedErrorVia(h) == {t \in Callers : pc[t] = "drop_report" /\ loc[t].h = h}
\* the steps in which caller t discards its request: one Add to the dropped
\* counter of the handle it logs through, one Add to its error counter, one
\* call of the error handler, and the return; the queue is left alone
DiscardSteps(t) ==
    LET h == loc[t].h
    IN /\ (pc[t] = "drop" /\ pc'[t] # "drop") =>
             /\ pc'[t] = "drop_error"
             /\ handles' = [handles EXCEPT ![h].dropped = @ + 1]
             /\ handlerCalls' = handlerCalls /\ asyncQueue' = asyncQueue
       /\ (pc[t] = "drop_error" /\ pc'[t] # "drop_error") =>
             /\ pc'[t] = "drop_report"
             /\ handles' = [handles EXCEPT ![h].loggedErrors = @ + 1]
             /\ handlerCalls' = handlerCalls /\ asyncQueue' = asyncQueue
       /\ (pc[t] = "drop_report" /\ pc'[t] # "drop_report") =>
             /\ pc'[t] = "idle"
             /\ handles' = handles
             /\ handlerCalls' = [handlerCalls EXCEPT !.full = @ + 1]
             /\ reqs'[loc[t].entry.id].fate = "dropped"
             /\ asyncQueue' = asyncQueue
\* no other step raises a counter or calls the handler with the queue-full error
OnlyDiscardsCount ==
    /\ \A h \in 1..Len(handles) :
          /\ handles'[h].dropped > handles[h].dropped =>
                \E t \in Callers : pc[t] = "drop" /\ loc[t].h = h /\ pc'[t] = "drop_error"
          /\ handles'[h].loggedErrors > handles[h].loggedErrors =>
                \E t \in Callers : pc[t] = "drop_error" /\ loc[t].h = h /\ pc'[t] = "drop_report"
    /\ handlerCalls'.full # handlerCalls.full =>
          \E t \in Callers : pc[t] = "drop_report" /\ pc'[t] = "idle"

\* C7: DropNewest with capacity N, while the worker has dequeued nothing: the
\* first N requests to arrive are queued in arrival order, every later one is
\* discarded; each discard adds exactly one to the dropped counter and one to
\* the error counter of the handle it was logged through and calls the error
\* handler once with the queue-full error, and nothing else adds to them, so
\* that after k discards with no reset the counters of the root handle stand
\* at the k discards made through it; no Log call blocks.
C7_DropNewest ==
    /\ []((Undrained /\ opts.AsyncPolicy = "DropNewest") =>
            /\ Len(asyncQueue) = Min(opts.AsyncQueueSize, Cardinality(Arrived))
            /\ \A i \in Arrived :
                  IF reqs[i].seq <= opts.AsyncQueueSize
                  THEN reqs[i].fate = "queued" /\ asyncQueue[reqs[i].seq].id = i
                  ELSE \/ reqs[i].fate = "dropped"
                       \/ \E t \in Callers : /\ pc[t] \in {"drop", "drop_error", "drop_report"}
                                              /\ loc[t].entry.id = i
            /\ handlerCalls.full = Cardinality(Dropped)
            /\ nAdmin = 0 =>
                  /\ handles[Root].dropped =
                        Cardinality(DroppedVia(Root)) + Cardinality(CountedDropVia(Root))
                  /\ handles[Root].loggedErrors =
                        Cardinality(DroppedVia(Root)) + Cardinality(CountedErrorVia(Root))
            /\ \A t \in Callers : pc[t] \notin {"block", "steal", "resend"})
    /\ [][(opts.Async /\ opts.AsyncPolicy = "DropNewest") =>
            (OnlyDiscardsCount /\ \A t \in Callers : DiscardSteps(t))]_vars

\* C7 witness: N + k requests have arrived and returned before the worker
\* dequeued, k >= 1 of them discarded, one of these through a derived handle
\* and one through the root, whose counters stand at its discards.
C7_Witness ==
    /\ Undrained /\ opts.AsyncPolicy = "DropNewest"
    /\ nAdmin = 0 /\ DroppedVia(Root) # {}
    /\ handles[Root].dropped = Cardinality(DroppedVia(Root))
    /\ Cardinality(Arrived) = MaxReq
    /\ \A t \in Callers : pc[t] = "idle"
    /\ Cardinality(Dropped) = MaxReq - opts.AsyncQueueSize
    /\ \E h \in 1..Len(handles) : h # Root /\ DroppedVia(h) # {}

\* C8 (safety): under Block nothing is ever discarded, and a Log call waiting
\* on the full queue leaves the wait only by enqueuing into a free slot (or
\* because the queue was closed under it).
BlockNothingDropped ==
    /\ \A h \in 1..Len(handles) : handles[h].dropped = 0
    /\ handlerCalls.full = 0
    /\ \A i \in 1..Len(reqs) : reqs[i].fate \notin {"dropped", "evicted"}
BlockedUntilRoom ==
    \A t \in Callers :
        (pc[t] = "block" /\ pc'[t] # "block") =>
            \/ qclosed
            \/ /\ Len(asyncQueue) < opts.AsyncQueueSize
               /\ asyncQueue' = Append(asyncQueue, loc[t].entry)
Blocked(id) == \E t \in Callers : pc[t] = "block" /\ loc[t].entry.id = id
Accepted(id) == id \in Range(enqOrder)

\* C8: under Block the dropped counter stays 0; a Log call that finds the
\* queue full does not return until a slot is free; and with a fair worker
\* every blocked Log call is eventually enqueued unless a Close begins.
C8_BlockWaits ==
    /\ [](opts.AsyncPolicy = "Block" => BlockNothingDropped)
    /\ [][opts.AsyncPolicy = "Block" => BlockedUntilRoom]_vars
    /\ \A id \in 1..MaxReq : Blocked(id) ~> (Accepted(id) \/ nCloses > 0)

\* C8 witness: no Close has begun and a request that arrived at the full
\* queue first was enqueued after a request that arrived later: it waited.
C8_Witness ==
    /\ opts.AsyncPolicy = "Block" /\ nCloses = 0
    /\ \E i, j \in Range(enqOrder) :
          reqs[i].seq < reqs[j].seq /\ PosEnq(j) < PosEnq(i)

\* the steps of a DropOldest Log call on an engine on which no Close has
\* begun, except the steal
DropOldestSteps(t) ==
    /\ pc[t] # "block" /\ pc'[t] # "block"
    /\ (pc[t] = "send" /\ pc'[t] # "send" /\ ~HasRoom(asyncQueue)) => pc'[t] = "steal"
    /\ (pc[t] = "resend" /\ pc'[t] # "resend") =>
          IF HasRoom(asyncQueue)
          THEN asyncQueue' = Append(asyncQueue, loc[t].entry) /\ pc'[t] = "idle"
          ELSE asyncQueue' = asyncQueue /\ pc'[t] = "drop"
    /\ DiscardSteps(t)
\* the steal removes the head of the queue when there is one
StealsHeadIfAny(t) ==
    (pc[t] = "steal" /\ pc'[t] # "steal") =>
        /\ pc'[t] = "resend"
        /\ IF asyncQueue # << >>
           THEN asyncQueue' = Tail(asyncQueue) /\ reqs'[Head(asyncQueue).id].fate = "evicted"
           ELSE asyncQueue' = asyncQueue /\ reqs' = reqs
\* the steal always removes a request
StealsHead(t) ==
    (pc[t] = "steal" /\ pc'[t] # "steal") =>
        /\ asyncQueue # << >>
        /\ asyncQueue' = Tail(asyncQueue)
OpenDropOldest == opts.Async /\ opts.AsyncPolicy = "DropOldest" /\ nCloses = 0

Returned(id) == \A t \in Callers : loc[t].entry.id = id => pc[t] = "panicked"
FilterExact ==
    /\ \A i \in 1..Len(filtered) : filtered[i].level < filtered[i].min
    /\ \A i \in 1..Len(reqs) : reqs[i].level >= reqs[i].min
FilteredCallIsNoOp ==
    filtered' # filtered =>
        UNCHANGED << handles, asyncQueue, qclosed, wg, mu, pc, loc, reqs, out, enqOrder,
                     handlerCalls, metrics >>

\* C10: a Log call produces a record (written or enqueued) if and only if
\* its level is at or above the minimum level: every call below it is
\* filtered out, every call at or above it passes the filter, and a call
\* that passed the filter has, once it is over, a record written or enqueued.
C10_RecordIffPasses ==
    /\ FilterExact
    /\ \A i \in 1..Len(reqs) :
          Returned(i) => reqs[i].fate \in {"queued", "taken", "written", "writeerr", "evicted"}

\* the second half of C10: a filtered-out call changes nothing (no copy, no
\* render, no enqueue, no write, no counter, no handler, no observer)
FilteredCallsAreNoOps == [][FilteredCallIsNoOp]_vars

\* ------------------------------------------------- the end of the process
\* Log and Close have no recover around the send and the close of the
\* channel, so the panic of a send on the closed channel, or of a second
\* close, unwinds the caller's goroutine; when the application does not
\* recover it either, the runtime ends the process and no goroutine of the
\* engine runs again. A goroutine stopped between the Unlock and the report of
\* logDirect (adapter.go:284-294) is marked: its write was made and will
\* never be reported.
PanicExit(t) ==
    /\ pc[t] = "panicked"
    /\ pc' = [u \in Threads |-> IF pc[u] \in {"ld_report", "dead_report"} THEN "dead_report" ELSE "dead"]
    /\ UNCHANGED << opts, faults, mem, metrics, handles, asyncQueue, qclosed, wg, mu, loc, reqs,
                    filtered, out, enqOrder, handlerCalls, closeLog, nCloses, nAdmin >>

\* ------------------------------------------------- the Block policy, fair
\* An engine built with the Block policy and the text format. The worker
\* goroutine is scheduled fairly, and so is a sender parked on the channel
\* once a slot is free.
InitBlock == Init /\ opts.Async /\ opts.AsyncPolicy = "Block" /\ opts.Format = "text"

NextBlock ==
    \/ \E t \in Callers :
         \/ Log(t) \/ TrySend(t) \/ BlockSend(t)
         \/ Close(t) \/ CloseChan(t) \/ CloseWait(t)
         \/ With(t) \/ WithStats(t) \/ WithReturn(t)
         \/ PanicExit(t)
    \/ \E t \in Threads : LdLock(t) \/ LdWrite(t) \/ LdReport(t)
    \/ WorkerStart \/ WorkerRecv \/ WorkerExit

FairBlock ==
    /\ WF_vars(WorkerStart) /\ WF_vars(WorkerRecv)
    /\ WF_vars(LdLock(Worker)) /\ WF_vars(LdWrite(Worker)) /\ WF_vars(LdReport(Worker))
    /\ \A t \in Callers : WF_vars(BlockSend(t))

SpecBlock == InitBlock /\ [][NextBlock]_vars /\ FairBlock

\* ------------------------------------------- one engine handle, fair
\* An engine used through its root handle only, text format, whose callers
\* may log an error value that panics while it is rendered and whose writer
\* factory may have no writer for a record. The worker goroutine is
\* scheduled fairly, a Write call returns, and a goroutine waiting for the
\* lock or parked on the channel runs once it can.
InitDrain == InitEngine /\ faults = {"panic", "nowriter"} /\ opts.Format = "text"

NextDrain ==
    \/ \E t \in Callers :
         \/ Log(t) \/ TrySend(t) \/ Steal(t) \/ Resend(t) \/ BlockSend(t)
         \/ Drop(t) \/ DropError(t) \/ DropReport(t)
         \/ Close(t) \/ CloseChan(t) \/ CloseWait(t)
         \/ PanicExit(t)
    \/ \E t \in Threads : LdLock(t) \/ LdNoWriter(t) \/ LdWrite(t) \/ LdReport(t) \/ LdRecover(t)
    \/ WorkerStart \/ WorkerRecv \/ WorkerExit

FairDrain ==
    /\ WF_vars(WorkerStart) /\ WF_vars(WorkerRecv)
    /\ \A t \in Threads : /\ WF_vars(LdLock(t) \/ LdNoWriter(t))
                          /\ WF_vars(LdWrite(t)) /\ WF_vars(LdReport(t)) /\ WF_vars(LdRecover(t))

SpecDrain == InitDrain /\ [][NextDrain]_vars /\ FairDrain

\* Views for delivery.
WritesOf(id) == {i \in 1..Len(out) : out[i].id = id}
InDelivery(id) ==
    \/ id \in Range(enqOrder)
    \/ \E t \in Callers : pc[t] \in {"ld_lock", "ld_write"} /\ loc[t].entry.id = id
Settled(id) == id <= Len(reqs) /\ reqs[id].fate \in {"written", "writeerr", "evicted"}

\* C11: a request that passed the filter is written at most once; it is
\* written only after it was accepted into the queue or taken by its caller
\* for synchronous delivery, never after it was dropped or evicted; and with
\* a fair worker every request accepted into the queue (or taken for
\* synchronous delivery) is eventually written unless DropOldest evicts it.
C11_WrittenOnce ==
    /\ [](\A id \in 1..Len(reqs) :
             /\ Cardinality(WritesOf(id)) <= 1
             /\ reqs[id].fate \in {"dropped", "evicted", "lost", "pending"} => WritesOf(id) = {}
             /\ reqs[id].fate \in {"written", "writeerr"} <=> WritesOf(id) # {})
    /\ \A id \in 1..MaxReq : InDelivery(id) ~> Settled(id)

\* ------------------------------------- the engine with a faulty writer
\* An engine used through its root handle whose writer may return an error
\* and whose callers may log an error value that panics while it is
\* rendered: synchronous, or asynchronous with a queue of one and the
\* DropNewest policy, text format. Scheduling is fair as in SpecDrain.
InitFaults ==
    /\ InitEngine
    /\ faults = {"write", "panic"}
    /\ opts.Format = "text"
    /\ opts.AsyncQueueSize = 1
    /\ opts.AsyncPolicy = "DropNewest"

NextFaults ==
    \/ \E t \in Callers :
         \/ Log(t) \/ TrySend(t) \/ Drop(t) \/ DropError(t) \/ DropReport(t)
         \/ Close(t) \/ CloseChan(t) \/ CloseWait(t)
         \/ PanicExit(t)
    \/ \E t \in Threads : LdLock(t) \/ LdWrite(t) \/ LdReport(t) \/ LdRecover(t)
    \/ WorkerStart \/ WorkerRecv \/ WorkerExit

FairFaults ==
    /\ WF_vars(WorkerStart) /\ WF_vars(WorkerRecv)
    /\ \A t \in Threads : WF_vars(LdLock(t)) /\ WF_vars(LdWrite(t)) /\ WF_vars(LdReport(t))
                        /\ WF_vars(LdRecover(t))

SpecFaults == InitFaults /\ [][NextFaults]_vars /\ FairFaults

\* Views for the error paths.
RenderPanicked == {id \in 1..Len(reqs) : reqs[id].fate = "renderpanic"}
Rendering(id) == \E t \in Threads : pc[t] = "ld_recover" /\ loc[t].entry.id = id
Delivered(id) == id <= Len(reqs) /\ reqs[id].fate \in {"written", "writeerr", "evicted", "renderpanic"}
\* goroutine t takes the step that leaves place p (the end of the process is
\* no step of t)
LeavesStep(t, p) == pc[t] = p /\ pc'[t] \notin {p, "dead", "dead_report"}
SameDropped == \A h \in 1..Len(handles) : handles'[h].dropped = handles[h].dropped
\* the step of goroutine t that recovers from a render panic
RecoverStep(t) ==
    LeavesStep(t, "ld_recover") =>
        LET h == Receiver(t, loc[t].h)
        IN /\ handles'[h].loggedErrors = handles[h].loggedErrors + 1
           /\ SameDropped
           /\ handlerCalls' = [handlerCalls EXCEPT !.panic = @ + 1]
           /\ out' = out
           /\ pc'[t] = IF t = Worker THEN "recv" ELSE "idle"
           /\ loc'[t].buf = << >>
           /\ mu' = mu
\* the step of goroutine t in which w.Write returns an error
WriteErrorStep(t) ==
    (LeavesStep(t, "ld_write") /\ Len(out') > Len(out) /\ out'[Len(out')].err) =>
        /\ Len(out') = Len(out) + 1
        /\ mu = t /\ mu' = -1
        /\ qclosed' = qclosed /\ asyncQueue' = asyncQueue
        /\ handles' = handles /\ handlerCalls' = handlerCalls
        /\ pc'[t] = "ld_report"
\* the step of goroutine t that accounts for the error w.Write returned
ReportErrorStep(t) ==
    (LeavesStep(t, "ld_report") /\ Written(t).err) =>
        LET h == Receiver(t, loc[t].h)
        IN /\ handles'[h].loggedErrors = handles[h].loggedErrors + 1
           /\ SameDropped
           /\ handlerCalls' = [handlerCalls EXCEPT !.write = @ + 1]
           /\ out' = out /\ mu' = mu
           /\ qclosed' = qclosed /\ asyncQueue' = asyncQueue
           /\ \A g \in 1..Len(handles) : handles'[g].stopped = handles[g].stopped
           /\ pc'[t] = IF t = Worker THEN "recv" ELSE "idle"
\* the goroutines between the Unlock and the end of logDirect, those the end
\* of the process stopped there included
Reporting == {t \in Threads : pc[t] \in {"ld_report", "dead_report"}}
ReportingErrors == {t \in Reporting : Written(t).err}

\* C12: a panic while a record is rendered is caught inside logDirect: the
\* caller's Log returns and the worker goes back to the queue; the error
\* counter rises by exactly one and the error handler is called exactly once;
\* nothing is written for the record and the buffer is given back; every
\* request in delivery, before or after the panic, still reaches its write.
C12_RenderPanicContained ==
    /\ [](/\ handlerCalls.panic = Cardinality(RenderPanicked)
          /\ \A id \in RenderPanicked : WritesOf(id) = {}
          /\ pc[Worker] # "panicked")
    /\ [][\A t \in Threads : RecoverStep(t)]_vars
    /\ \A id \in 1..MaxReq : (InDelivery(id) \/ Rendering(id)) ~> Delivered(id)

\* C12 witness: the worker recovered from a render panic and wrote a request
\* accepted after it; a caller recovered from one in a synchronous Log.
C12_Witness ==
    \E i, j \in Range(enqOrder) :
        /\ i < j
        /\ reqs[i].fate = "renderpanic"
        /\ reqs[j].fate = "written"

\* C13: when w.Write returns an error the error counter rises by exactly one,
\* the error handler is called exactly once with it, the dropped counter is
\* unchanged, the lock is released, the record is not written again, the
\* lifecycle state (queue open or closed, stopped flags) is unchanged, and
\* later requests are still delivered.
C13_WriteErrorContained ==
    /\ [][\A t \in Threads : WriteErrorStep(t) /\ ReportErrorStep(t)]_vars
    /\ [](/\ \A id \in 1..Len(reqs) :
               reqs[id].fate = "writeerr" => Cardinality(WritesOf(id)) = 1
          /\ handlerCalls.write + Cardinality(ReportingErrors)
                = Cardinality({i \in 1..Len(out) : out[i].err}))
    /\ \A id \in 1..MaxReq : InDelivery(id) ~> Delivered(id)

\* the parts of C12 and C13 that do not depend on the process staying alive:
\* the recover step and the write-error steps are as C12 and C13 say, and a
\* request in delivery reaches its write, its recovered panic or the end of
\* the process
Exited == \E t \in Threads : pc[t] \in {"dead", "dead_report"}
RenderPanicSteps ==
    /\ [](/\ handlerCalls.panic = Cardinality(RenderPanicked)
          /\ \A id \in RenderPanicked : WritesOf(id) = {}
          /\ pc[Worker] # "panicked")
    /\ [][\A t \in Threads : RecoverStep(t)]_vars
WriteErrorSteps ==
    /\ [][\A t \in Threads : WriteErrorStep(t) /\ ReportErrorStep(t)]_vars
    /\ [](/\ \A id \in 1..Len(reqs) :
               reqs[id].fate = "writeerr" => Cardinality(WritesOf(id)) = 1
          /\ handlerCalls.write + Cardinality(ReportingErrors)
                = Cardinality({i \in 1..Len(out) : out[i].err}))
DeliveredUnlessExit ==
    \A id \in 1..MaxReq : (InDelivery(id) \/ Rendering(id)) ~> (Delivered(id) \/ Exited)

\* C13 witness: the worker's write of one request failed and its write of a
\* later request succeeded.
C13_Witness ==
    \E i, j \in 1..Len(out) :
        /\ i < j
        /\ out[i].by = Worker /\ out[i].err
        /\ out[j].by = Worker /\ ~out[j].err

\* Views for the observer.
IsWriteObservation(o) == o.kind = "write"
WriteObservations == SelectSeq(metrics, IsWriteObservation)

ClosedHandles == {c.h : c \in closeLog}
\* the requests a step takes past the level filter of Log
NewRequests == (1..Len(reqs')) \ (1..Len(reqs))

\* C14: once Close has returned on a handle, a Log call on that handle is a
\* no-op (no request of it is rendered, enqueued or written), and the handle
\* of an asynchronous engine stays stopped.
C14_ClosedIsTerminal ==
    [][/\ \A id \in NewRequests : reqs'[id].h \notin ClosedHandles
       /\ \A h \in ClosedHandles : opts.Async => handles'[h].stopped]_vars

\* ------------------------------------------- the copy of the field list
\* Memory below the field lists: heap.arrays are the backing arrays of
\* []Field slices, a slice is a header [arr, len] into one of them, heap.pool
\* holds the headers put into fieldsPool. frame.caller is the slice the
\* caller passes to Log and keeps using afterwards; frame.queue and frame.cur
\* are the entries in the channel and in the worker's hands, frame.rendered
\* and frame.line whether the worker has rendered its entry and the line in
\* its buffer, frame.done whether it has written it; frame.records are the records
\* written, each with the field values of its Log call.
PoolCap == 8
NoField == [K |-> "", Kind |-> "", Str |-> "", Int64 |-> 0]
MemFields == {[K |-> "code", Kind |-> "int64", Str |-> "", Int64 |-> 200],
              [K |-> "code", Kind |-> "int64", Str |-> "", Int64 |-> 404]}
NoSlice == [arr |-> 0, len |-> 0]

\* the elements of slice s
Elems(h, s) == [i \in 1..s.len |-> h.arrays[s.arr][i]]
Cap(h, s) == Len(h.arrays[s.arr])
\* s[:n]
Reslice(s, n) == [s EXCEPT !.len = n]
\* make([]Field, 0, c)
Make(h, c) == [heap |-> [h EXCEPT !.arrays = Append(@, [i \in 1..c |-> NoField])],
               s |-> [arr |-> Len(h.arrays) + 1, len |-> 0]]
\* copy(dst, src)
CopyElems(h, dst, src) ==
    [h EXCEPT !.arrays[dst.arr] =
        [i \in 1..Len(@) |-> IF i <= src.len /\ i <= dst.len THEN h.arrays[src.arr][i] ELSE @[i]]]
\* nextPow2, lines 15-31: the next power of two >= n, 8 at least.  The bit
\* smearing of lines 19-26 is computed by doubling.  The branch of line 27
\* (n <= 0 after the increment) is taken only when the increment overflows
\* int: above 2^62 where int has 64 bits, above 2^30 where it has 32.  Up to
\* 2^30 both widths give the same value, and that is the range defined here;
\* the slices of the model are far shorter.
RECURSIVE pow2AtLeast(_, _)
pow2AtLeast(p, n) == IF p >= n THEN p ELSE pow2AtLeast(2 * p, n)
nextPow2(n) == IF n <= 8 THEN 8 ELSE pow2AtLeast(16, n)

\* fieldsPool.Get(): one of the pooled slices, or a new one from New
PoolGet(h) ==
    {[heap |-> [h EXCEPT !.pool = @ \ {s}], s |-> s] : s \in h.pool}
      \cup (IF Len(h.arrays) < MaxArrays THEN {Make(h, PoolCap)} ELSE {})

\* a copy that hands the caller's own slice to the worker
copyFieldsAliased(h, src) == {[heap |-> h, c |-> src, pooled |-> TRUE]}

\* copyFieldsPooled on the heap, lines 33-41: every outcome of Get
copyFieldsPooledIn(h, src) ==
    { LET d == IF Cap(g.heap, g.s) < src.len THEN Make(g.heap, nextPow2(src.len)) ELSE g
          dst == Reslice(d.s, src.len)
      IN [heap |-> CopyElems(d.heap, dst, src), c |-> dst, pooled |-> TRUE]
      : g \in PoolGet(h) }

\* releaseFields, lines 43-49
releaseFields(h, s) ==
    IF Cap(h, s) > 1024 THEN h ELSE [h EXCEPT !.pool = @ \cup {Reslice(s, 0)}]

InitCopy ==
    /\ InitAdapter /\ faults = {}
    /\ opts.Async /\ opts.AsyncPolicy = "DropNewest" /\ opts.Format = "text"
    /\ \E a \in [1..CallerCap -> MemFields], n \in 0..CallerCap :
         /\ heap = [arrays |-> << a >>, pool |-> {}]
         /\ frame = [caller |-> [arr |-> 1, len |-> n], queue |-> << >>, cur |-> NoSlice,
                     want |-> << >>, rendered |-> FALSE, line |-> << >>, done |-> FALSE,
                     records |-> << >>, logs |-> 0]

\* Adapter.Log on the asynchronous path, lines 188-205: copy, then send or
\* discard and release.
CopyLog ==
    /\ frame.logs < MaxCopies
    /\ \E r \in copyFieldsPooledIn(heap, frame.caller) :
         LET entry == [fields |-> r.c, pooled |-> r.pooled, want |-> Elems(heap, frame.caller)]
         IN IF HasRoom(frame.queue)
            THEN /\ frame' = [frame EXCEPT !.queue = Enqueue(@, entry), !.logs = @ + 1]
                 /\ heap' = r.heap
            ELSE /\ frame' = [frame EXCEPT !.logs = @ + 1]
                 /\ heap' = IF r.pooled THEN releaseFields(r.heap, r.c) ELSE r.heap
    /\ UNCHANGED engine

\* the caller, after Log has returned: it overwrites an element of its slice
CallerOverwrite ==
    /\ frame.logs > 0
    /\ \E i \in 1..CallerCap, f \in MemFields :
         /\ heap.arrays[frame.caller.arr][i] # f
         /\ heap' = [heap EXCEPT !.arrays[frame.caller.arr][i] = f]
    /\ UNCHANGED << engine, frame >>

\* the caller, after Log has returned: it truncates or re-extends its slice
CallerReslice ==
    /\ frame.logs > 0
    /\ \E n \in 0..CallerCap :
         /\ n # frame.caller.len
         /\ frame' = [frame EXCEPT !.caller = Reslice(@, n)]
    /\ UNCHANGED << engine, heap >>

\* asyncProcessor, line 300: the worker takes the entry at the head
CopyRecv ==
    /\ frame.cur = NoSlice
    /\ frame.queue # << >>
    /\ frame' = [frame EXCEPT !.cur = Head(frame.queue).fields,
                              !.want = Head(frame.queue).want,
                              !.queue = Dequeue(@)]
    /\ UNCHANGED << engine, heap >>

\* asyncProcessor, line 301, over logDirect, line 270: the record is rendered
\* into the buffer from the elements the worker's slice holds now
CopyRender ==
    /\ frame.cur # NoSlice
    /\ ~frame.rendered
    /\ frame' = [frame EXCEPT
          !.line = FormatLogLine(opts.Format, LevelInfo, "ready", "T0", << >>,
                                 Elems(heap, frame.cur)),
          !.rendered = TRUE]
    /\ UNCHANGED << engine, heap >>

\* logDirect, lines 282-284: Lock, Write of the buffer, Unlock; the worker
\* still owns the slice
CopyDeliver ==
    /\ frame.rendered
    /\ ~frame.done
    /\ frame' = [frame EXCEPT
          !.records = Append(@, [line |-> frame.line,
                                 arr |-> frame.cur.arr,
                                 want |-> frame.want]),
          !.done = TRUE]
    /\ UNCHANGED << engine, heap >>

\* asyncProcessor, lines 302-304: after logDirect has returned the pooled
\* slice is released
CopyRelease ==
    /\ frame.cur # NoSlice
    /\ frame.done
    /\ frame' = [frame EXCEPT !.cur = NoSlice, !.want = << >>, !.rendered = FALSE,
                              !.line = << >>, !.done = FALSE]
    /\ heap' = releaseFields(heap, frame.cur)
    /\ UNCHANGED engine

NextCopy ==
    \/ CopyLog \/ CallerOverwrite \/ CallerReslice
    \/ CopyRecv \/ CopyRender \/ CopyDeliver \/ CopyRelease
SpecCopy == InitCopy /\ [][NextCopy]_vars

\* the slices the engine holds for delivery
HeldSlices == {frame.queue[i].fields : i \in 1..Len(frame.queue)} \cup ({frame.cur} \ {NoSlice})
\* a step of the engine, as opposed to a step of the caller
EngineStep == frame'.queue # frame.queue \/ frame'.cur # frame.cur
                \/ frame'.records # frame.records \/ frame'.logs # frame.logs

\* C15: the record written for an asynchronously delivered request is the
\* rendering of the field values the caller's slice held when Log was called,
\* whatever the caller does to its slice afterwards; no slice held for
\* delivery shares the caller's backing array or sits in the pool, and no step
\* of the engine changes the caller's array or slice.
C15_FieldsCopiedAtEnqueue ==
    /\ [](/\ \A i \in 1..Len(frame.records) :
               frame.records[i].line =
                  FormatLogLine(opts.Format, LevelInfo, "ready", "T0", << >>, frame.records[i].want)
          /\ \A s \in HeldSlices : s.arr # frame.caller.arr /\ Reslice(s, 0) \notin heap.pool
          /\ \A i, j \in 1..Len(frame.queue) :
               i # j => frame.queue[i].fields.arr # frame.queue[j].fields.arr)
    /\ [][EngineStep => /\ heap'.arrays[frame.caller.arr] = heap.arrays[frame.caller.arr]
                        /\ frame'.caller = frame.caller]_vars

\* C15 witness: a record was written with field values the caller's slice no
\* longer holds, and a pooled array carried two records.
C15_Witness ==
    \E i, j \in 1..Len(frame.records) :
        /\ i < j
        /\ frame.records[i].arr = frame.records[j].arr
        /\ Len(frame.records[j].want) = CallerCap
        /\ frame.records[j].want # Elems(heap, frame.caller)
        /\ frame.records[i].want # frame.records[j].want

\* ------------------------------------------------ JSON string encoding
\* Strings are sequences of bytes (0..255). The characters a string is built
\* from, each with its UTF-8 bytes; the last two are bytes that are not valid
\* UTF-8 on their own.
QuoteChars ==
    { << 97 >>,              \* a
      << 34 >>,              \* "
      << 92 >>,              \* backslash
      << 10 >>,              \* \n
      << 1 >>,               \* control character U+0001
      << 31 >>,              \* control character U+001F
      << 195, 169 >>,        \* U+00E9, two bytes
      << 226, 128, 168 >>,   \* U+2028
      << 226, 128, 169 >>,   \* U+2029
      << 255 >>,             \* invalid byte
      << 128 >> }            \* invalid byte: a continuation byte on its own
InvalidChars == {<< 255 >>, << 128 >>}
QuoteStrings == UNION {[1..n -> QuoteChars] : n \in 0..MaxStr}

\* const digits = "0123456789abcdef"
digits(n) == IF n < 10 THEN 48 + n ELSE 97 + (n - 10)

IsCont(s, k) == k <= Len(s) /\ s[k] >= 128 /\ s[k] <= 191
InRange(s, k, lo, hi) == k <= Len(s) /\ s[k] >= lo /\ s[k] <= hi
RuneError == 65533

\* utf8.DecodeRuneInString(s[i:]): the rune and its size
DecodeRuneInString(s, i) ==
    LET b == s[i]
        bad == [r |-> RuneError, size |-> 1]
    IN CASE b < 128 -> [r |-> b, size |-> 1]
         [] b >= 194 /\ b <= 223 ->
              IF IsCont(s, i + 1)
              THEN [r |-> (b - 192) * 64 + (s[i + 1] - 128), size |-> 2] ELSE bad
         [] b >= 224 /\ b <= 239 ->
              IF /\ InRange(s, i + 1, (IF b = 224 THEN 160 ELSE 128), (IF b = 237 THEN 159 ELSE 191))
                 /\ IsCont(s, i + 2)
              THEN [r |-> (b - 224) * 4096 + (s[i + 1] - 128) * 64 + (s[i + 2] - 128), size |-> 3]
              ELSE bad
         [] b >= 240 /\ b <= 244 ->
              IF /\ InRange(s, i + 1, (IF b = 240 THEN 144 ELSE 128), (IF b = 244 THEN 143 ELSE 191))
                 /\ IsCont(s, i + 2) /\ IsCont(s, i + 3)
              THEN [r |-> (b - 240) * 262144 + (s[i + 1] - 128) * 4096
                            + (s[i + 2] - 128) * 64 + (s[i + 3] - 128), size |-> 4]
              ELSE bad
         [] OTHER -> bad

\* an encoder that escapes nothing
escapeByteRaw(c) == << c >>

\* appendQuotedContent, lines 22-41: what is written for a byte below 0x80
\* that cannot stay as it is
escapeByte(c) ==
    CASE c = 92 \/ c = 34 -> << 92, c >>
      [] c = 10 -> << 92, 110 >>
      [] c = 13 -> << 92, 114 >>
      [] c = 9 -> << 92, 116 >>
      [] c = 8 -> << 92, 98 >>
      [] c = 12 -> << 92, 102 >>
      [] OTHER -> << 92, 117, 48, 48, digits(c \div 16), digits(c % 16) >>

\* the escapes written for an invalid byte, U+2028 and U+2029
escFFFD == << 92, 117, 70, 70, 70, 68 >>
esc2028 == << 92, 117, 50, 48, 50, 56 >>
esc2029 == << 92, 117, 50, 48, 50, 57 >>

\* the loop of appendQuotedContent: i is the position, start the beginning of
\* the run of bytes not yet written (both count from 1). Lines 19-21 write the
\* pending run before every byte that is not plain ASCII; a valid multi-byte
\* rune other than U+2028 and U+2029 then only advances i (line 63) and
\* leaves start where it was.
RECURSIVE quoteLoop(_, _, _, _)
quoteLoop(buf, s, i, start) ==
    LET flushed == IF start < i THEN buf \o SubSeq(s, start, i - 1) ELSE buf
    IN IF i > Len(s)
       THEN (IF start <= Len(s) THEN buf \o SubSeq(s, start, Len(s)) ELSE buf)
       ELSE LET c == s[i]
            IN IF c >= 32 /\ c # 92 /\ c # 34 /\ c < 128
               THEN quoteLoop(buf, s, i + 1, start)
               ELSE IF c < 128
               THEN quoteLoop(flushed \o escapeByte(c), s, i + 1, i + 1)
               ELSE LET d == DecodeRuneInString(s, i)
                    IN IF d.r = RuneError /\ d.size = 1
                       THEN quoteLoop(flushed \o escFFFD, s, i + 1, i + 1)
                       ELSE IF d.r = 8232 \/ d.r = 8233
                       THEN quoteLoop(flushed \o (IF d.r = 8232 THEN esc2028 ELSE esc2029),
                                      s, i + d.size, i + d.size)
                       ELSE quoteLoop(flushed, s, i + d.size, start)

appendQuotedContent(buf, s) == quoteLoop(buf, s, 1, 1)

\* appendQuoted on bytes, lines 5-9
appendQuotedTo(buf, s) == appendQuotedContent(buf \o << 34 >>, s) \o << 34 >>

\* A JSON parser reading one string literal (RFC 8259 section 7).
IsHex(b) == (b >= 48 /\ b <= 57) \/ (b >= 97 /\ b <= 102) \/ (b >= 65 /\ b <= 70)
HexVal(b) == IF b <= 57 THEN b - 48 ELSE IF b >= 97 THEN b - 87 ELSE b - 55
\* the UTF-8 bytes of a code point of the basic multilingual plane
EncodeRune(r) ==
    IF r < 128 THEN << r >>
    ELSE IF r < 2048 THEN << 192 + (r \div 64), 128 + (r % 64) >>
    ELSE << 224 + (r \div 4096), 128 + ((r \div 64) % 64), 128 + (r % 64) >>
SimpleEscape(b) ==
    CASE b = 34 -> << 34 >> [] b = 92 -> << 92 >> [] b = 47 -> << 47 >>
      [] b = 98 -> << 8 >> [] b = 102 -> << 12 >> [] b = 110 -> << 10 >>
      [] b = 114 -> << 13 >> [] b = 116 -> << 9 >> [] OTHER -> << >>
ParseFailed == [ok |-> FALSE, s |-> << >>]

\* the characters after the opening quote, up to the closing quote, which
\* must be the last byte
RECURSIVE parseChars(_, _, _)
parseChars(q, k, acc) ==
    IF k > Len(q) THEN ParseFailed
    ELSE LET b == q[k]
         IN IF b = 34 THEN (IF k = Len(q) THEN [ok |-> TRUE, s |-> acc] ELSE ParseFailed)
            ELSE IF b < 32 THEN ParseFailed
            ELSE IF b # 92 THEN parseChars(q, k + 1, Append(acc, b))
            ELSE IF k + 1 > Len(q) THEN ParseFailed
            ELSE IF q[k + 1] = 117
                 THEN IF k + 5 <= Len(q) /\ \A j \in 2..5 : IsHex(q[k + j])
                      THEN LET r == HexVal(q[k + 2]) * 4096 + HexVal(q[k + 3]) * 256
                                      + HexVal(q[k + 4]) * 16 + HexVal(q[k + 5])
                           IN parseChars(q, k + 6,
                                acc \o EncodeRune(IF r >= 55296 /\ r <= 57343 THEN RuneError ELSE r))
                      ELSE ParseFailed
                 ELSE IF SimpleEscape(q[k + 1]) = << >> THEN ParseFailed
                      ELSE parseChars(q, k + 2, acc \o SimpleEscape(q[k + 1]))

ParseJSONString(q) ==
    IF Len(q) >= 2 /\ q[1] = 34 THEN parseChars(q, 2, << >>) ELSE ParseFailed

\* the bytes of a string of characters, and the bytes a parser is to give
\* back: the same, with U+FFFD in place of each invalid byte
Bytes(cs) == Concat(cs)
Replaced(cs) ==
    Concat([k \in 1..Len(cs) |-> IF cs[k] \in InvalidChars THEN EncodeRune(RuneError) ELSE cs[k]])

InitQuote ==
    /\ InitAdapter /\ faults = {}
    /\ ~opts.Async /\ opts.Format = "json"
    /\ heap = << >>
    /\ \E cs \in QuoteStrings :
         frame = [at |-> "input", chars |-> cs, quoted |-> << >>, parsed |-> ParseFailed]

\* appendQuoted(buf, s) on an empty buffer
QuoteString ==
    /\ frame.at = "input"
    /\ frame' = [frame EXCEPT !.at = "quoted", !.quoted = appendQuotedTo(<< >>, Bytes(frame.chars))]
    /\ UNCHANGED << engine, heap >>

\* the reader of the log parses the literal
ParseString ==
    /\ frame.at = "quoted"
    /\ frame' = [frame EXCEPT !.at = "parsed", !.parsed = ParseJSONString(frame.quoted)]
    /\ UNCHANGED << engine, heap >>

NextQuote == QuoteString \/ ParseString
SpecQuote == InitQuote /\ [][NextQuote]_vars

\* C17: the quoted output of the encoder parses as one JSON string whose
\* value is the input, character by character in order, with U+FFFD in place
\* of each invalid byte.
C17_QuoteRoundTrip ==
    frame.at = "parsed" =>
        /\ frame.parsed.ok
        /\ frame.parsed.s = Replaced(frame.chars)

\* C17 witness: a string with a quote, U+2028 and an invalid byte has been
\* encoded and parsed back.
C17_Witness ==
    /\ frame.at = "parsed"
    /\ frame.parsed.ok
    /\ {frame.chars[k] : k \in 1..Len(frame.chars)} = {<< 34 >>, << 226, 128, 168 >>, << 255 >>}
    /\ frame.parsed.s # Bytes(frame.chars)

\* ---------------------------------------------------------- binding
\* With on the heap: the bound list of a handle is a slice into a backing
\* array; the caller keeps the slice it passed to With. A handle of
\* frame.bound is [bound, preBoundText, preBoundJSON], and with it the handle
\* it was derived from (parent), the field values passed to With (args) and
\* the slice the caller passed (fs).
BindFields == {[K |-> "svc", Kind |-> "string", Str |-> "api", Int64 |-> 0],
               [K |-> "svc", Kind |-> "string", Str |-> "web", Int64 |-> 0]}
BindArgs == UNION {[1..n -> BindFields] : n \in 0..MaxArgs}

\* the capacities the runtime may give an array that append allocates for n
\* elements: exactly n, or rounded up to the next size class
GrowCaps(n) == {n, n + 1}

\* append(dst, src...): in place when the capacity suffices, else into a new
\* array
AppendFields(h, dst, src) ==
    LET n == dst.len + src.len
        old == Elems(h, dst) \o Elems(h, src)
    IN IF dst.arr # 0 /\ n <= Cap(h, dst)
       THEN {[heap |-> [h EXCEPT !.arrays[dst.arr] =
                           [i \in 1..Len(@) |->
                              IF i > dst.len /\ i <= n THEN h.arrays[src.arr][i - dst.len] ELSE @[i]]],
              s |-> [arr |-> dst.arr, len |-> n]]}
       ELSE {[heap |-> [h EXCEPT !.arrays =
                           Append(@, [i \in 1..c |-> IF i <= n THEN old[i] ELSE NoField])],
              s |-> [arr |-> Len(h.arrays) + 1, len |-> n]] : c \in GrowCaps(n)}

\* With, lines 166-169: the copy of the receiver's bound list, with room for fs
copyBound(h, bound, fs) ==
    IF bound.len > 0
    THEN LET d == Make(h, bound.len + fs.len)
             dst == Reslice(d.s, bound.len)
         IN [heap |-> CopyElems(d.heap, dst, bound), s |-> dst]
    ELSE [heap |-> h, s |-> NoSlice]

\* a child that appends to the receiver's own slice
bindFieldsShared(h, bound, fs) ==
    IF fs.len > 0 THEN AppendFields(h, bound, fs) ELSE {[heap |-> h, s |-> bound]}

\* a child that starts from an empty list
bindFieldsOnly(h, bound, fs) ==
    IF fs.len > 0 THEN AppendFields(h, NoSlice, fs) ELSE {[heap |-> h, s |-> NoSlice]}

\* With, lines 165-173: child.bound
bindFields(h, bound, fs) ==
    LET c == copyBound(h, bound, fs)
    IN IF fs.len > 0 THEN AppendFields(c.heap, c.s, fs) ELSE {c}

RootBound == [bound |-> NoSlice, preBoundText |-> << >>, preBoundJSON |-> << >>,
              parent |-> 0, args |-> << >>, fs |-> NoSlice]

InitBind ==
    /\ InitAdapter /\ faults = {}
    /\ ~opts.Async /\ opts.Format = "text"
    /\ heap = [arrays |-> << >>, pool |-> {}]
    /\ frame = [bound |-> << RootBound >>]

\* a.With(fs) on handle p; the caller's fs is a slice it has just filled
BindWith ==
    /\ Len(frame.bound) < MaxBound
    /\ \E p \in 1..Len(frame.bound), args \in BindArgs :
         LET h1 == [heap EXCEPT !.arrays = Append(@, args)]
             fs == IF args = << >> THEN NoSlice
                   ELSE [arr |-> Len(h1.arrays), len |-> Len(args)]
             hh == IF args = << >> THEN heap ELSE h1
         IN \E r \in bindFields(hh, frame.bound[p].bound, fs) :
              /\ heap' = r.heap
              /\ frame' = [frame EXCEPT !.bound = Append(@,
                    [bound |-> r.s,
                     preBoundText |-> encodeBoundText(Elems(r.heap, r.s)),
                     preBoundJSON |-> encodeBoundJSON(Elems(r.heap, r.s)),
                     parent |-> p, args |-> args, fs |-> fs])]
    /\ UNCHANGED engine

\* the caller, after With has returned: it overwrites an element of a slice
\* it passed
BindOverwrite ==
    /\ \E c \in 2..Len(frame.bound), f \in BindFields :
         LET fs == frame.bound[c].fs
         IN \E i \in 1..fs.len :
              /\ heap.arrays[fs.arr][i] # f
              /\ heap' = [heap EXCEPT !.arrays[fs.arr][i] = f]
    /\ UNCHANGED << engine, frame >>

NextBind == BindWith \/ BindOverwrite
SpecBind == InitBind /\ [][NextBind]_vars

\* the bound list of handle x as it is in memory now
BoundOf(x) == Elems(heap, frame.bound[x].bound)
BoundHandles == 1..Len(frame.bound)
SamePrefixes(x, y) ==
    /\ frame.bound[x].preBoundText = frame.bound[y].preBoundText
    /\ frame.bound[x].preBoundJSON = frame.bound[y].preBoundJSON

\* C18: for handles x, y = x.With(A), z = y.With(B) and w = x.With(A ++ B),
\* z and w have the same bound list and the same text and JSON prefixes, and
\* a child's list has every field of its parent and of its arguments, equal
\* keys included.
C18_WithAssociative ==
    /\ \A y, z, w \in BoundHandles :
          (/\ frame.bound[y].parent # 0
           /\ frame.bound[z].parent = y
           /\ frame.bound[w].parent = frame.bound[y].parent
           /\ frame.bound[w].args = frame.bound[y].args \o frame.bound[z].args)
          => (BoundOf(z) = BoundOf(w) /\ SamePrefixes(z, w))
    /\ \A c \in BoundHandles :
          frame.bound[c].parent # 0 =>
             Len(BoundOf(c)) = Len(BoundOf(frame.bound[c].parent)) + Len(frame.bound[c].args)

\* C18 witness: z = root.With(A).With(B) and w = root.With(A ++ B) exist with
\* A and B fields of the same key.
C18_Witness ==
    \E y, z, w \in BoundHandles :
        /\ frame.bound[y].parent = 1 /\ frame.bound[z].parent = y /\ frame.bound[w].parent = 1
        /\ Len(frame.bound[y].args) = 1 /\ Len(frame.bound[z].args) = 1
        /\ frame.bound[y].args # frame.bound[z].args
        /\ frame.bound[w].args = frame.bound[y].args \o frame.bound[z].args
        /\ BoundOf(z) = frame.bound[w].args

\* the field values handle x was created with: those of its parent, then its
\* arguments
RECURSIVE BoundAtCreation(_)
BoundAtCreation(x) ==
    IF frame.bound[x].parent = 0 THEN << >>
    ELSE BoundAtCreation(frame.bound[x].parent) \o frame.bound[x].args

\* C19: the bound list and the prefixes of every handle stay what they were
\* when the handle was created, through every later With on it or on another
\* handle and every later change of a slice a caller passed; a With step
\* leaves every existing handle as it was; no two handles and no handle and
\* caller share a backing array.
C19_WithLeavesReceiver ==
    /\ [](\A x \in BoundHandles :
            /\ BoundOf(x) = BoundAtCreation(x)
            /\ frame.bound[x].preBoundText = encodeBoundText(BoundAtCreation(x))
            /\ frame.bound[x].preBoundJSON = encodeBoundJSON(BoundAtCreation(x))
            /\ \A y \in BoundHandles :
                 /\ (x # y /\ frame.bound[x].bound.arr # 0)
                       => frame.bound[x].bound.arr # frame.bound[y].bound.arr
                 /\ frame.bound[x].bound.arr # 0
                       => frame.bound[x].bound.arr # frame.bound[y].fs.arr)
    /\ [][\A x \in BoundHandles :
            /\ frame'.bound[x] = frame.bound[x]
            /\ Elems(heap', frame.bound[x].bound) = BoundOf(x)]_vars

\* C19 witness: two children of one parent with a bound field, one of them
\* created with spare capacity, and the slice passed for the first child was
\* overwritten afterwards.
C19_Witness ==
    \E p, c, d \in BoundHandles :
        /\ c # d /\ frame.bound[c].parent = p /\ frame.bound[d].parent = p
        /\ frame.bound[p].bound.len > 0
        /\ Cap(heap, frame.bound[p].bound) > frame.bound[p].bound.len
        /\ frame.bound[c].args # << >> /\ frame.bound[d].args # << >>
        /\ Elems(heap, frame.bound[c].fs) # frame.bound[c].args

\* ------------------------------------------------- the rendered record
\* FormatLogLine applied to a level, a message, an instant, the prefix of a
\* bound list and a list of event fields.
LineMsgs == {"ready", "state changed"}
LineFields == {[K |-> "code", Kind |-> "int64", Str |-> "", Int64 |-> 200],
               [K |-> "user", Kind |-> "string", Str |-> "state changed", Int64 |-> 0]}
LineFieldLists == UNION {[1..n -> LineFields] : n \in 0..MaxFields}

InitLine ==
    /\ InitAdapter /\ faults = {}
    /\ ~opts.Async
    /\ heap = << >>
    /\ \E level \in Levels, msg \in LineMsgs, at \in Times, bound \in BindArgs,
          fields \in LineFieldLists :
         frame = [at |-> "input", level |-> level, msg |-> msg, time |-> at,
                  bound |-> bound, fields |-> fields, line |-> << >>]

\* logDirect, lines 263-270: the prefix of the format, then FormatLogLine
RenderLine ==
    /\ frame.at = "input"
    /\ frame' = [frame EXCEPT !.at = "rendered",
                   !.line = FormatLogLine(opts.Format, frame.level, frame.msg, frame.time,
                               (IF opts.Format = "json" THEN encodeBoundJSON(frame.bound)
                                ELSE encodeBoundText(frame.bound)),
                               frame.fields)]
    /\ UNCHANGED << engine, heap >>

\* putBuf: the buffer goes back to the pool and the next record starts
ResetLine ==
    /\ frame.at = "rendered"
    /\ frame' = [frame EXCEPT !.at = "input", !.line = << >>]
    /\ UNCHANGED << engine, heap >>

NextLine == RenderLine \/ ResetLine
SpecLine == InitLine /\ [][NextLine]_vars

\* the parts of a record, in the order the claim gives them
TimePart == IF opts.Format = "json"
            THEN << "{", "\"ts\":\"" >> \o appendRFC3339Nano(frame.time) \o << "\"" >>
            ELSE << "ts=" >> \o appendRFC3339Nano(frame.time)
LevelPart == << (IF opts.Format = "json" THEN ",\"level\":" ELSE " level=") >>
                \o appendInt64(frame.level)
MsgPart == IF opts.Format = "json"
           THEN << ",\"msg\":" >> \o appendQuoted(frame.msg)
           ELSE << " msg=" >> \o appendTextString(frame.msg)
PrefixPart == IF opts.Format = "json" THEN encodeBoundJSON(frame.bound)
              ELSE encodeBoundText(frame.bound)
FieldPart(k) == IF opts.Format = "json" THEN appendJSONField(frame.fields[k])
                ELSE appendTextField(frame.fields[k])
ClosePart == IF opts.Format = "json" THEN << "}" >> ELSE << >>

\* C20: a rendered record is the timestamp, the level as an integer, the
\* message, the bound prefix verbatim, the event fields in call order, for
\* JSON the closing brace of the one object, and then exactly one newline.
C20_RecordPartsInOrder ==
    frame.at = "rendered" =>
        LET line == frame.line
            n == Len(line)
        IN /\ line = TimePart \o LevelPart \o MsgPart \o PrefixPart
                       \o Concat([k \in 1..Len(frame.fields) |-> FieldPart(k)])
                       \o ClosePart \o << "\n" >>
           /\ line[n] = "\n"
           /\ \A k \in 1..(n - 1) : line[k] # "\n"
           /\ opts.Format = "json" =>
                 /\ line[1] = "{" /\ line[n - 1] = "}"
                 /\ \A k \in 2..(n - 2) : line[k] \notin {"{", "}"}

\* C20 witness: a record with a quoted message, two bound fields and two
\* different event fields has been rendered.
C20_Witness ==
    /\ frame.at = "rendered"
    /\ frame.msg = "state changed"
    /\ Len(frame.bound) = 2 /\ frame.bound[1] # frame.bound[2]
    /\ Len(frame.fields) = 2 /\ frame.fields[1] # frame.fields[2]
    /\ PrefixPart # << >>

\* ---------------------------------------------------- time encodings
\* The instants E1 and E2 are one and two seconds after the Unix epoch, UTC.
Instants == {"E1", "E2"}
UnixMilli(t) == IF t = "E1" THEN 1000 ELSE 2000
UnixNano(t) == IF t = "E1" THEN 1000000000 ELSE 2000000000
\* opts.TimeFormat: unset, or the layout time.Kitchen
TimeFormats == {"", "3:04PM"}
JSONTimes == {"JSONTimeRFC3339Nano", "JSONTimeUnixMillis", "JSONTimeUnixNanos"}
\* where a timestamp value sits in a record: an event field or a bound field
\* of kind KindTime, or a time.Time inside a KindAny field
TimePlaces == {"event", "bound", "any"}

\* t.AppendFormat(b, layout) for the layouts of TimeFormats
AppendFormat(t, layout) == IF layout = "3:04PM" THEN << "12:00AM" >> ELSE appendRFC3339Nano(t)

\* writeTextLine, lines 341-349: the value after `ts=`
textTimestamp(at, o) ==
    IF o.TimeFormat # "" THEN AppendFormat(at, o.TimeFormat) ELSE appendRFC3339Nano(at)

\* appendTextValue, lines 390-391 (KindTime), and appendTextAny, lines 449-450
\* (time.Time); encodeBoundText renders bound fields with the same function
textTimeValue(t, place) == appendRFC3339Nano(t)

\* writeJSONLine, lines 56-67: the value after `"ts":`
jsonTimestamp(at, o) ==
    CASE o.JSONTime = "JSONTimeUnixMillis" -> appendInt64(UnixMilli(at))
      [] o.JSONTime = "JSONTimeUnixNanos" -> appendInt64(UnixNano(at))
      [] OTHER -> << "\"" >> \o appendRFC3339Nano(at) \o << "\"" >>

\* time.Time.MarshalJSON: the quoted RFC 3339 form
MarshalJSON(t) == << "\"" >> \o appendRFC3339Nano(t) \o << "\"" >>

\* appendJSONField, lines 119-129 (KindTime); for KindAny the type switch
\* reaches `case json.Marshaler` (line 147) before `case time.Time` (line
\* 204), and time.Time implements json.Marshaler
jsonTimeValue(t, place, o) ==
    IF place = "any" THEN MarshalJSON(t)
    ELSE CASE o.JSONTime = "JSONTimeUnixMillis" -> appendInt64(UnixMilli(t))
           [] o.JSONTime = "JSONTimeUnixNanos" -> appendInt64(UnixNano(t))
           [] OTHER -> << "\"" >> \o appendRFC3339Nano(t) \o << "\"" >>

InitTime ==
    /\ InitAdapter /\ faults = {}
    /\ ~opts.Async
    /\ heap = << >>
    /\ \E o \in [TimeFormat : TimeFormats, JSONTime : JSONTimes], place \in TimePlaces :
         frame = [at |-> "input", o |-> o, t |-> "E1", place |-> place,
                  top |-> << >>, value |-> << >>]

\* one record whose top-level timestamp and whose timestamp field are the
\* same instant
RenderTime ==
    /\ frame.at = "input"
    /\ frame' = [frame EXCEPT !.at = "rendered",
                   !.top = IF opts.Format = "json" THEN jsonTimestamp(frame.t, frame.o)
                           ELSE textTimestamp(frame.t, frame.o),
                   !.value = IF opts.Format = "json"
                             THEN jsonTimeValue(frame.t, frame.place, frame.o)
                             ELSE textTimeValue(frame.t, frame.place)]
    /\ UNCHANGED << engine, heap >>

\* the next record of the same engine, at another instant
NextInstant ==
    /\ frame.at = "rendered"
    /\ \E t \in Instants \ {frame.t} :
         frame' = [frame EXCEPT !.at = "input", !.t = t, !.top = << >>, !.value = << >>]
    /\ UNCHANGED << engine, heap >>

NextTime == RenderTime \/ NextInstant
SpecTime == InitTime /\ [][NextTime]_vars

\* C21: in a record whose timestamp field holds the instant of the record,
\* the field's value is rendered as the top-level timestamp is, for every
\* format, every time option and every place of the field.
C21_SameTimeEncoding ==
    frame.at = "rendered" => frame.value = frame.top

\* ------------------------------------------------------ the buffer pool
\* A format buffer is its slice header: length and capacity of buf.b.
\* heap.bufs are the buffers alive (capacity 0: none), heap.pool the ones
\* resting in bufPool. frame.held is the buffer each render holds, frame.got
\* what getBufWithCap returned to it, frame.initCap the engine's initBufCap.
DefaultBufCap == 2048
BufCeiling == 65536
NoBuf == [len |-> 0, cap |-> 0]
InitCaps == {0, 4096, 70000}
WriteSizes == {1000, 40000}

\* The capacity append gives a byte slice of capacity c that must grow to
\* hold need bytes, as the runtime's growslice computes it: the needed length
\* when it exceeds twice the capacity, twice the capacity below 256, else
\* steps of a quarter plus 192 until the need is met; the result is rounded
\* up to the allocator's size class, or to whole pages of 8192 bytes above
\* 32768.
SizeClasses ==
    {8, 16, 24, 32, 48, 64, 80, 96, 112, 128, 144, 160, 176, 192, 208, 224, 240, 256,
     288, 320, 352, 384, 416, 448, 480, 512, 576, 640, 704, 768, 896, 1024, 1152, 1280,
     1408, 1536, 1792, 2048, 2304, 2688, 3072, 3200, 3456, 4096, 4864, 5120, 5376, 6144,
     6528, 6784, 6912, 8192, 9472, 9728, 10240, 10880, 12288, 13568, 14336, 16384, 18432,
     19072, 20480, 21760, 24576, 27264, 28672, 32768}
roundupsize(n) ==
    IF n <= 32768
    THEN CHOOSE k \in SizeClasses : k >= n /\ \A j \in SizeClasses : j >= n => k <= j
    ELSE ((n + 8191) \div 8192) * 8192
RECURSIVE growQuarter(_, _)
growQuarter(c, need) == IF c >= need THEN c ELSE growQuarter(c + ((c + 768) \div 4), need)
nextslicecap(c, need) ==
    IF need > 2 * c THEN need
    ELSE IF c < 256 THEN 2 * c
    ELSE growQuarter(c + ((c + 768) \div 4), need)
AppendCaps(c, need) == {roundupsize(nextslicecap(c, need))}

\* buf.b = append(buf.b, p...)
writeBytes(b, n) ==
    IF b.len + n <= b.cap THEN {[b EXCEPT !.len = @ + n]}
    ELSE {[len |-> b.len + n, cap |-> c] : c \in AppendCaps(b.cap, b.len + n)}

\* buffer.grow, lines 12-25
grow(b, n) ==
    IF n <= b.cap - b.len THEN b
    ELSE LET need == b.len + n
             newCap == IF 2 * b.cap < need THEN need ELSE 2 * b.cap
         IN [len |-> b.len, cap |-> newCap]

\* bufPool.Get(): a pooled buffer, or a new one of 2048 bytes
BufGet(h) ==
    {[heap |-> [h EXCEPT !.pool = @ \ {i}], i |-> i] : i \in h.pool}
      \cup {[heap |-> [h EXCEPT !.bufs[i] = [len |-> 0, cap |-> DefaultBufCap]], i |-> i] :
               i \in {j \in 1..MaxBufs : h.bufs[j] = NoBuf /\ \A k \in 1..(j - 1) : h.bufs[k] # NoBuf}}

\* getBufWithCap, lines 29-40
getBufWithCap(h, initCap) ==
    LET c == IF initCap <= 0 THEN DefaultBufCap ELSE initCap
    IN {[heap |-> [g.heap EXCEPT !.bufs[g.i] =
                      IF @.cap < c THEN [len |-> 0, cap |-> c] ELSE [@ EXCEPT !.len = 0]],
         i |-> g.i] : g \in BufGet(h)}

\* getBuf, lines 41-45
getBuf(h) ==
    {[heap |-> [g.heap EXCEPT !.bufs[g.i].len = 0], i |-> g.i] : g \in BufGet(h)}

\* a release that pools every buffer
putBufAlways(h, i) == [h EXCEPT !.pool = @ \cup {i}]

\* putBuf, lines 46-50: a buffer above the ceiling is left to the collector
putBuf(h, i) ==
    IF h.bufs[i].cap <= BufCeiling THEN [h EXCEPT !.pool = @ \cup {i}]
    ELSE [h EXCEPT !.bufs[i] = NoBuf]

InitBuf ==
    /\ InitAdapter /\ faults = {}
    /\ ~opts.Async /\ opts.Format = "text"
    /\ heap = [bufs |-> [i \in 1..MaxBufs |-> NoBuf], pool |-> {}]
    /\ \E c \in InitCaps :
         frame = [initCap |-> c,
                  held |-> [t \in Callers |-> 0],
                  got |-> [t \in Callers |-> NoBuf],
                  min |-> [t \in Callers |-> 0],
                  writes |-> [t \in Callers |-> 0]]

\* logDirect, line 250: buf := getBufWithCap(a.initBufCap)
BufAcquire(t) ==
    /\ frame.held[t] = 0
    /\ \E r \in getBufWithCap(heap, frame.initCap) :
         /\ heap' = r.heap
         /\ frame' = [frame EXCEPT !.held[t] = r.i, !.got[t] = r.heap.bufs[r.i],
                                   !.min[t] = frame.initCap, !.writes[t] = 0]
    /\ UNCHANGED engine

\* encodeBoundText / encodeBoundJSON: buf := getBuf()
BufAcquirePlain(t) ==
    /\ frame.held[t] = 0
    /\ \E r \in getBuf(heap) :
         /\ heap' = r.heap
         /\ frame' = [frame EXCEPT !.held[t] = r.i, !.got[t] = r.heap.bufs[r.i],
                                   !.min[t] = 0, !.writes[t] = 0]
    /\ UNCHANGED engine

\* the renderer appends n bytes
BufWrite(t) ==
    /\ frame.held[t] # 0
    /\ frame.writes[t] < MaxWrites
    /\ \E n \in WriteSizes : \E b \in writeBytes(heap.bufs[frame.held[t]], n) :
         heap' = [heap EXCEPT !.bufs[frame.held[t]] = b]
    /\ frame' = [frame EXCEPT !.writes[t] = @ + 1]
    /\ UNCHANGED engine

\* appendBase64: buf.grow(encodedLen + 1) ahead of the bytes
BufGrow(t) ==
    /\ frame.held[t] # 0
    /\ frame.writes[t] < MaxWrites
    /\ \E n \in WriteSizes :
         /\ grow(heap.bufs[frame.held[t]], n) # heap.bufs[frame.held[t]]
         /\ heap' = [heap EXCEPT !.bufs[frame.held[t]] = grow(@, n)]
    /\ frame' = [frame EXCEPT !.writes[t] = @ + 1]
    /\ UNCHANGED engine

\* logDirect, line 251 (deferred), and the encoders: putBuf(buf)
BufRelease(t) ==
    /\ frame.held[t] # 0
    /\ heap' = putBuf(heap, frame.held[t])
    /\ frame' = [frame EXCEPT !.held[t] = 0, !.got[t] = NoBuf, !.min[t] = 0, !.writes[t] = 0]
    /\ UNCHANGED engine

NextBuf ==
    \E t \in Callers :
        BufAcquire(t) \/ BufAcquirePlain(t) \/ BufWrite(t) \/ BufGrow(t) \/ BufRelease(t)
SpecBuf == InitBuf /\ [][NextBuf]_vars

\* C22: every buffer an acquire returned had length 0 and a capacity of at
\* least the capacity asked for, every buffer in the pool has a capacity of
\* at most 64 KiB, and no buffer is both held by a render and in the pool or
\* held by two renders.
C22_BufferPoolBounds ==
    /\ \A t \in Callers :
          frame.held[t] # 0 =>
             /\ frame.got[t].len = 0
             /\ frame.got[t].cap >= frame.min[t]
             /\ frame.got[t].cap > 0
             /\ frame.held[t] \notin heap.pool
             /\ \A u \in Callers \ {t} : frame.held[u] # frame.held[t]
    /\ \A i \in heap.pool : heap.bufs[i].cap > 0 /\ heap.bufs[i].cap <= BufCeiling

\* C22 witness: a render holds a buffer that grew beyond 64 KiB while
\* another acquired a pooled buffer that had grown and still held bytes when
\* it was released.
C22_Witness ==
    \E t, u \in Callers :
        /\ frame.held[t] # 0 /\ heap.bufs[frame.held[t]].cap > BufCeiling
        /\ frame.held[u] # 0 /\ frame.writes[u] = 0
        /\ frame.got[u].cap > DefaultBufCap /\ frame.got[u].cap <= BufCeiling
        /\ frame.initCap = 0

\* ------------------------------------------------- counters of clones
\* Stats(): the snapshot of the counters of handle h
Stats(h) == [LoggedErrors |-> handles[h].loggedErrors, Dropped |-> handles[h].dropped]

\* C23: the counters are shared by the handles of one engine: at every
\* moment Stats() gives the same snapshot on every handle.
C23_CountersShared ==
    \A h, g \in 1..Len(handles) : Stats(h) = Stats(g)

\* ------------------------------------------------ installing a collector
\* The collector of the root handle is held in an atomic.Value: frame.stored
\* is the concrete type of the value it holds, frame.measureDur the flag set
\* with it, frame.installs the SetMetricsCollector calls made so far.
NoopType == "*NoopMetricsCollector"
\* the arguments a caller may pass: nil, the no-op collector, a collector of
\* the caller's own type
Collectors == {"nil", NoopType, "*recorder"}

\* atomic.Value.Store: a value whose concrete type differs from the type of
\* the value stored first makes Store panic
StorePanics(stored, c) == c # stored

InitMetrics ==
    /\ InitAdapter /\ faults = {}
    /\ ~opts.Async /\ opts.Format = "text"
    /\ heap = << >>
    /\ frame = [stored |-> NoopType, measureDur |-> FALSE, installs |-> << >>]

\* SetMetricsCollector, lines 124-131
SetMetricsCollector(t) ==
    /\ CanCall(t)
    /\ Len(frame.installs) < MaxInstalls
    /\ \E arg \in Collectors :
         LET collector == IF arg = "nil" THEN NoopType ELSE arg
         IN IF StorePanics(frame.stored, collector)
            THEN /\ frame' = [frame EXCEPT
                        !.installs = Append(@, [arg |-> arg, returned |-> FALSE])]
                 /\ pc' = Goto(t, "panicked")
            ELSE /\ frame' = [frame EXCEPT
                        !.stored = collector,
                        !.measureDur = (collector # NoopType),
                        !.installs = Append(@, [arg |-> arg, returned |-> TRUE])]
                 /\ UNCHANGED pc
    /\ UNCHANGED << opts, faults, heap, metrics, handles, asyncQueue, qclosed, wg, mu, loc, reqs,
                    filtered, out, enqOrder, handlerCalls, closeLog, nCloses, nAdmin >>

NextMetrics ==
    \E t \in Callers : SetMetricsCollector(t) \/ Log(t) \/ LdLock(t) \/ LdWrite(t) \/ LdReport(t)
SpecMetrics == InitMetrics /\ [][NextMetrics]_vars

\* C24: every SetMetricsCollector call returns, and after the last one the
\* engine holds the collector it was given (the no-op collector for nil) and
\* measures durations if and only if that is not the no-op collector.
C24_CollectorInstalled ==
    /\ \A i \in 1..Len(frame.installs) : frame.installs[i].returned
    /\ frame.installs # << >> =>
          LET arg == frame.installs[Len(frame.installs)].arg
          IN /\ frame.stored = (IF arg = "nil" THEN NoopType ELSE arg)
             /\ frame.measureDur = (frame.stored # NoopType)

\* ------------------------------------------------------- the facade
\* Logger (src/logger.go) in front of a synchronous built-in adapter with one
\* observer. frame.loggers are the Logger values: each holds its adapter
\* handle ad (the minimum level of its opts and its bound fields) and its
\* closed flag; all share the atomic frame.min. frame.events are the emit
\* calls, each with the step it has reached, frame.notes the OnEvent calls
\* the observer received, frame.sets the SetMinLevel calls that have not
\* returned, each with the step it has reached.
NewLogger == [ad |-> [MinLevel |-> LevelInfo, bound |-> << >>], closed |-> FALSE]

InitFacade ==
    /\ InitAdapter /\ faults = {}
    /\ ~opts.Async /\ opts.Format = "text"
    /\ heap = << >>
    /\ frame = [loggers |-> << NewLogger >>, min |-> LevelInfo, sets |-> << >>,
                events |-> << >>, notes |-> << >>]

\* a step of a SetMinLevel call overlaps every emit call that has not returned
Unsettled(events) ==
    [e \in 1..Len(events) |->
        IF events[e].step = "done" THEN events[e] ELSE [events[e] EXCEPT !.settled = FALSE]]
\* a sequence without its i-th element
Without(q, i) == SubSeq(q, 1, i - 1) \o SubSeq(q, i + 1, Len(q))

\* Logger.With, lines 69-76, over Adapter.With: the clone copies opts and
\* extends the bound fields; min is the same pointer, closed starts false
LoggerWith ==
    /\ Len(frame.loggers) < MaxLoggers
    /\ \E l \in 1..Len(frame.loggers), fs \in BindLists :
         frame' = [frame EXCEPT !.loggers = Append(@,
                      [ad |-> [MinLevel |-> frame.loggers[l].ad.MinLevel,
                               bound |-> frame.loggers[l].ad.bound \o fs],
                       closed |-> FALSE])]
    /\ UNCHANGED << engine, heap >>

\* Logger.SetMinLevel, lines 56-59: the minimum is loaded; a call that asks
\* for the level it loaded returns at once and changes nothing
LoggerSetMinLevel ==
    /\ Len(frame.sets) < MaxSetters
    /\ \E l \in 1..Len(frame.loggers), m \in Levels :
         /\ frame.min # m
         /\ frame' = [frame EXCEPT !.sets = Append(@, [l |-> l, m |-> m, step |-> "store"]),
                                   !.events = Unsettled(@)]
    /\ UNCHANGED << engine, heap >>

\* Logger.SetMinLevel, line 60: l.min.Store
LoggerStoreMin ==
    /\ \E i \in 1..Len(frame.sets) :
         /\ frame.sets[i].step = "store"
         /\ frame' = [frame EXCEPT !.min = frame.sets[i].m, !.sets[i].step = "adapter",
                                   !.events = Unsettled(@)]
    /\ UNCHANGED << engine, heap >>

\* Logger.SetMinLevel, lines 61-65, over Adapter.SetMinLevel (adapter.go:308):
\* the minimum of the adapter handle of this logger is assigned
LoggerSetAdapterLevel ==
    /\ \E i \in 1..Len(frame.sets) :
         /\ frame.sets[i].step = "adapter"
         /\ frame' = [frame EXCEPT !.loggers[frame.sets[i].l].ad.MinLevel = frame.sets[i].m,
                                   !.sets = Without(@, i),
                                   !.events = Unsettled(@)]
    /\ UNCHANGED << engine, heap >>

\* Logger.Close, lines 114-121: the flag of this Logger is swapped; Close of
\* a synchronous adapter does nothing
LoggerClose ==
    /\ \E l \in 1..Len(frame.loggers) :
         /\ ~frame.loggers[l].closed
         /\ frame' = [frame EXCEPT !.loggers[l].closed = TRUE]
    /\ UNCHANGED << engine, heap >>

\* Logger.emit, lines 94-96: the closed flag is loaded
LoggerEmit ==
    /\ Len(frame.events) < MaxEvents
    /\ \E l \in 1..Len(frame.loggers), level \in Levels, msg \in Msgs, at \in Times,
          fs \in FieldLists :
         LET closed == frame.loggers[l].closed
             ev == [l |-> l, level |-> level, msg |-> msg, at |-> at,
                    min |-> frame.min, fields |-> fs,
                    closed |-> closed,
                    settled |-> frame.sets = << >>,
                    passed |-> FALSE, delivered |-> FALSE,
                    step |-> IF closed THEN "done" ELSE "filter"]
         IN frame' = [frame EXCEPT !.events = Append(@, ev)]
    /\ UNCHANGED << engine, heap >>

\* Logger.emit, lines 97-107: the facade's filter on the minimum loaded now,
\* then the clock and the copy of the fields
LoggerFilter ==
    /\ \E e \in 1..Len(frame.events) :
         /\ frame.events[e].step = "filter"
         /\ LET passed == ~(frame.events[e].level < frame.min)
            IN frame' = [frame EXCEPT !.events[e].min = frame.min,
                                      !.events[e].passed = passed,
                                      !.events[e].step = IF passed THEN "log" ELSE "done"]
    /\ UNCHANGED << engine, heap >>

\* Logger.emit, line 109, over Adapter.Log: the adapter's own filter
\* (adapter.go:185) on the minimum of the handle as it is now
LoggerLog ==
    /\ \E e \in 1..Len(frame.events) :
         /\ frame.events[e].step = "log"
         /\ frame' = [frame EXCEPT !.events[e].step =
               IF Filtered(frame.loggers[frame.events[e].l].ad, frame.events[e].level)
               THEN "notify" ELSE "write"]
    /\ UNCHANGED << engine, heap >>

\* Adapter.Log, line 239, over logDirect (adapter.go:282-284): the record
\* is written
LoggerWrite ==
    /\ \E e \in 1..Len(frame.events) :
         /\ frame.events[e].step = "write"
         /\ frame' = [frame EXCEPT !.events[e].delivered = TRUE, !.events[e].step = "notify"]
    /\ UNCHANGED << engine, heap >>

\* Logger.emit, line 110, over notifyEvent, lines 124-138: the observer
\* receives a copy of the fields emit was given
LoggerNotify ==
    /\ \E e \in 1..Len(frame.events) :
         /\ frame.events[e].step = "notify"
         /\ frame' = [frame EXCEPT
               !.events[e].step = "done",
               !.notes = Append(@, [ev |-> e, level |-> frame.events[e].level,
                                    msg |-> frame.events[e].msg, at |-> frame.events[e].at,
                                    fields |-> frame.events[e].fields])]
    /\ UNCHANGED << engine, heap >>

NextFacade ==
    \/ LoggerWith \/ LoggerSetMinLevel \/ LoggerStoreMin \/ LoggerSetAdapterLevel \/ LoggerClose
    \/ LoggerEmit \/ LoggerFilter \/ LoggerLog \/ LoggerWrite \/ LoggerNotify
SpecFacade == InitFacade /\ [][NextFacade]_vars

\* C25: once an emit call has returned, the observer was notified once if
\* the event passed the filter and not at all otherwise, with the event's
\* level, message and timestamp and with the bound fields of the logger
\* followed by the event's own fields.
C25_ObserverSeesBoundFields ==
    /\ \A e \in 1..Len(frame.events) :
          frame.events[e].step = "done" =>
             Cardinality({n \in 1..Len(frame.notes) : frame.notes[n].ev = e})
                = (IF frame.events[e].passed THEN 1 ELSE 0)
    /\ \A n \in 1..Len(frame.notes) :
          LET e == frame.events[frame.notes[n].ev]
          IN /\ frame.notes[n].level = e.level
             /\ frame.notes[n].msg = e.msg
             /\ frame.notes[n].at = e.at
             /\ frame.notes[n].fields = frame.loggers[e.l].ad.bound \o e.fields

\* C28: an event emitted through an open logger while no SetMinLevel call is
\* under way is delivered to the output if and only if its level is at least
\* the minimum level last set on the facade, through whichever logger of the
\* family it is emitted.
C28_FiltersAligned ==
    \A e \in 1..Len(frame.events) :
        (frame.events[e].step = "done" /\ frame.events[e].settled /\ ~frame.events[e].closed) =>
            (frame.events[e].delivered <=> (frame.events[e].level >= frame.events[e].min))

\* ------------------------------------- Close and the handles of a queue
\* C26: once Close has returned on any handle of an asynchronous engine, no
\* Log call on any handle sharing the queue goes on to the send into the
\* queue, and no Close call goes on to close the queue again.
C26_CloseStopsEveryHandle ==
    [][(opts.Async /\ ClosedHandles # {}) =>
          \A t \in Callers : pc'[t] \in {"send", "close_chan"} => pc'[t] = pc[t]]_vars

\* ------------------------------------------- accounting of lost requests
\* the drops counted on the first n handles since each was created
RECURSIVE CountedDrops(_)
CountedDrops(n) ==
    IF n = 0 THEN 0
    ELSE CountedDrops(n - 1) + (handles[n].dropped - handles[n].dropped0)

\* the requests lost to backpressure: discarded on arrival or evicted
Lost == {i \in 1..Len(reqs) : reqs[i].fate \in {"dropped", "evicted"}}

ClosedAndDrained ==
    /\ opts.Async
    /\ ClosedHandles # {}
    /\ pc[Worker] = "exited"
    /\ \A t \in Callers : pc[t] = "idle"

\* C27: under DropNewest and DropOldest, once the engine is closed and
\* drained, the Log calls that passed the level filter are the write attempts
\* plus the drops counted, and the error handler received the queue-full
\* error once per lost request, discarded on arrival or evicted.
C27_LossesAccounted ==
    (ClosedAndDrained /\ opts.AsyncPolicy \in {"DropNewest", "DropOldest"}) =>
        /\ Len(reqs) = Len(out) + CountedDrops(Len(handles))
        /\ handlerCalls.full = Cardinality(Lost)

\* the same under DropNewest alone
C27_NewestAccounted ==
    (ClosedAndDrained /\ opts.AsyncPolicy = "DropNewest") =>
        /\ Len(reqs) = Len(out) + CountedDrops(Len(handles))
        /\ handlerCalls.full = Cardinality(Lost)

\* ------------------------------------- the engine with a panicking writer
\* An engine whose writer may panic inside Write and whose writer factory
\* may have no writer. logDirect, lines 282-284:
\* `a.mu.Lock(); n, err := w.Write(buf.b); a.mu.Unlock()` with no defer, so
\* the panic unwinds past Unlock into the deferred recover of lines 253-261,
\* which counts the error, calls the error handler and reports to the
\* collector; logDirect then returns with the lock as the panic left it.
LdWritePanic(t) ==
    /\ pc[t] = "ld_write"
    /\ "writepanic" \in faults
    /\ handles' = [handles EXCEPT ![Receiver(t, loc[t].h)] = CountPanic(@)]
    /\ handlerCalls' = [handlerCalls EXCEPT !.panic = @ + 1]
    /\ metrics' = Append(metrics,
           Observation(loc[t].entry.id, loc[t].entry.level, 0, TRUE, "panic"))
    /\ reqs' = SetFate(loc[t].entry.id, "writepanic")
    /\ pc' = Goto(t, IF t = Worker THEN "recv" ELSE "idle")
    /\ loc' = [loc EXCEPT ![t] = NoLoc]
    /\ UNCHANGED << opts, faults, mem, asyncQueue, qclosed, wg, mu, filtered, out, enqOrder,
                    closeLog, nCloses, nAdmin >>

InitWritePanic ==
    /\ InitEngine
    /\ faults = {"write", "writepanic", "nowriter"}
    /\ opts.Format = "text"
    /\ opts.AsyncQueueSize = 1
    /\ opts.AsyncPolicy = "DropNewest"

NextWritePanic ==
    \/ \E t \in Callers :
         \/ Log(t) \/ TrySend(t) \/ Drop(t) \/ DropError(t) \/ DropReport(t)
         \/ Close(t) \/ CloseChan(t) \/ CloseWait(t)
         \/ PanicExit(t)
    \/ \E t \in Threads : LdLock(t) \/ LdWrite(t) \/ LdReport(t) \/ LdWritePanic(t) \/ LdNoWriter(t)
    \/ WorkerStart \/ WorkerRecv \/ WorkerExit

SpecWritePanic == InitWritePanic /\ [][NextWritePanic]_vars

\* C29: the write lock is held only while a Write call is in progress: when
\* a delivery step has finished, normally, with a write error or through the
\* recovered panic of the writer, the lock is free.
C29_LockOnlyDuringWrite ==
    mu # -1 => pc[mu] = "ld_write"

\* ------------------------------------- ownership of pooled field slices
\* Two producers and the worker on the heap of the copy check. frame.at and
\* frame.hand are each producer's place in Log and the slice its entry
\* carries; frame.queue is the channel, frame.cur the slice of the entry the
\* worker is delivering. frame.puts counts, for each backing array, the
\* releases since copyFieldsPooled last returned it; frame.evicted are the
\* arrays that were released by an eviction; frame.waited counts the sends
\* that waited for room.
InitOwn ==
    /\ InitAdapter /\ faults = {}
    /\ opts.Async /\ opts.Format = "text"
    /\ \E a \in [1..CallerCap -> MemFields] :
         /\ heap = [arrays |-> << a >>, pool |-> {}]
         /\ frame = [caller |-> [arr |-> 1, len |-> 1],
                     at |-> [t \in Callers |-> "idle"],
                     hand |-> [t \in Callers |-> NoSlice],
                     queue |-> << >>, cur |-> NoSlice, done |-> FALSE,
                     puts |-> [i \in 1..MaxArrays |-> 0],
                     evicted |-> {}, waited |-> 0, logs |-> 0]

\* Log, lines 188-192: copyFieldsPooled and the entry
OwnLog(t) ==
    /\ frame.at[t] = "idle"
    /\ frame.logs < MaxOwnLogs
    /\ \E r \in copyFieldsPooledIn(heap, frame.caller) :
         /\ heap' = r.heap
         /\ frame' = [frame EXCEPT !.at[t] = "send", !.hand[t] = r.c,
                                   !.puts[r.c.arr] = 0, !.logs = @ + 1]
    /\ UNCHANGED engine

\* Log, lines 193-197: the first non-blocking send
OwnSend(t) ==
    /\ frame.at[t] = "send"
    /\ frame' = IF HasRoom(frame.queue)
                THEN [frame EXCEPT !.queue = Enqueue(@, [fields |-> frame.hand[t], pooled |-> TRUE]),
                                   !.hand[t] = NoSlice, !.at[t] = "idle"]
                ELSE [frame EXCEPT !.at[t] = OverflowStep(opts.AsyncPolicy)]
    /\ UNCHANGED << engine, heap >>

\* Log, lines 199-205 and 222-228: the incoming entry is discarded and its
\* slice released
OwnDrop(t) ==
    /\ frame.at[t] = "drop"
    /\ heap' = releaseFields(heap, frame.hand[t])
    /\ frame' = [frame EXCEPT !.puts[frame.hand[t].arr] = @ + 1,
                              !.hand[t] = NoSlice, !.at[t] = "idle"]
    /\ UNCHANGED engine

\* Faulty variant of the eviction: the slice of the oldest entry is released
\* while the entry stays in the queue.
OwnStealPeek(t) ==
    /\ frame.at[t] = "steal"
    /\ IF frame.queue # << >>
       THEN /\ heap' = releaseFields(heap, Head(frame.queue).fields)
            /\ frame' = [frame EXCEPT !.puts[Head(frame.queue).fields.arr] = @ + 1,
                                      !.evicted = @ \cup {Head(frame.queue).fields.arr},
                                      !.at[t] = "resend"]
       ELSE /\ frame' = [frame EXCEPT !.at[t] = "resend"]
            /\ UNCHANGED heap
    /\ UNCHANGED engine

\* Log, lines 208-216: the oldest entry is received and its slice released
OwnSteal(t) ==
    /\ frame.at[t] = "steal"
    /\ IF frame.queue # << >>
       THEN /\ heap' = releaseFields(heap, Head(frame.queue).fields)
            /\ frame' = [frame EXCEPT !.queue = Dequeue(@),
                                      !.puts[Head(frame.queue).fields.arr] = @ + 1,
                                      !.evicted = @ \cup {Head(frame.queue).fields.arr},
                                      !.at[t] = "resend"]
       ELSE /\ frame' = [frame EXCEPT !.at[t] = "resend"]
            /\ UNCHANGED heap
    /\ UNCHANGED engine

\* Log, lines 217-221: the second non-blocking send
OwnResend(t) ==
    /\ frame.at[t] = "resend"
    /\ frame' = IF HasRoom(frame.queue)
                THEN [frame EXCEPT !.queue = Enqueue(@, [fields |-> frame.hand[t], pooled |-> TRUE]),
                                   !.hand[t] = NoSlice, !.at[t] = "idle"]
                ELSE [frame EXCEPT !.at[t] = "drop"]
    /\ UNCHANGED << engine, heap >>

\* Log, lines 230-235: the blocking send
OwnBlock(t) ==
    /\ frame.at[t] = "block"
    /\ HasRoom(frame.queue)
    /\ frame' = [frame EXCEPT !.queue = Enqueue(@, [fields |-> frame.hand[t], pooled |-> TRUE]),
                              !.hand[t] = NoSlice, !.at[t] = "idle", !.waited = @ + 1]
    /\ UNCHANGED << engine, heap >>

\* asyncProcessor, line 300: the worker receives the entry at the head
OwnRecv ==
    /\ frame.cur = NoSlice
    /\ frame.queue # << >>
    /\ frame' = [frame EXCEPT !.cur = Head(frame.queue).fields, !.queue = Dequeue(@)]
    /\ UNCHANGED << engine, heap >>

\* asyncProcessor, line 301: logDirect delivers the entry; the worker still
\* references the slice
OwnWrite ==
    /\ frame.cur # NoSlice
    /\ ~frame.done
    /\ frame' = [frame EXCEPT !.done = TRUE]
    /\ UNCHANGED << engine, heap >>

\* asyncProcessor, lines 302-304: after logDirect the slice is released
OwnDeliver ==
    /\ frame.cur # NoSlice
    /\ frame.done
    /\ heap' = releaseFields(heap, frame.cur)
    /\ frame' = [frame EXCEPT !.puts[frame.cur.arr] = @ + 1, !.cur = NoSlice, !.done = FALSE]
    /\ UNCHANGED engine

NextOwn ==
    \/ \E t \in Callers :
         OwnLog(t) \/ OwnSend(t) \/ OwnDrop(t) \/ OwnSteal(t) \/ OwnResend(t) \/ OwnBlock(t)
    \/ OwnRecv \/ OwnWrite \/ OwnDeliver

SpecOwn == InitOwn /\ [][NextOwn]_vars

\* the references to pooled slices: one per producer in Log, per queued
\* entry, and the worker's
OwnRefs ==
    [t \in {t \in Callers : frame.hand[t] # NoSlice} |-> frame.hand[t]]
OwnHeld ==
    << frame.cur >> \o [i \in 1..Len(frame.queue) |-> frame.queue[i].fields]
       \o [i \in 1..Cardinality(DOMAIN OwnRefs) |->
              OwnRefs[CHOOSE t \in DOMAIN OwnRefs :
                         Cardinality({u \in DOMAIN OwnRefs : u < t}) = i - 1]]

\* C30: a pooled field slice has one owner at a time: it is released at most
\* once for each time copyFieldsPooled returned it, it is not in the pool
\* while a producer's entry, a queued entry or the entry the worker is
\* delivering references it, and no two entries reference the same array.
C30_SingleOwner ==
    /\ \A i \in 1..MaxArrays : frame.puts[i] <= 1
    /\ \A i \in 1..Len(OwnHeld) :
          OwnHeld[i] # NoSlice =>
             /\ Reslice(OwnHeld[i], 0) \notin heap.pool
             /\ frame.puts[OwnHeld[i].arr] = 0
             /\ OwnHeld[i].arr # frame.caller.arr
    /\ \A i, j \in 1..Len(OwnHeld) :
          (i # j /\ OwnHeld[i] # NoSlice /\ OwnHeld[j] # NoSlice) => OwnHeld[i].arr # OwnHeld[j].arr

\* C30 witness: after an eviction the worker is delivering an entry, another
\* is queued and a producer holds a third in Log, and one of the three
\* carries the array the eviction released.
C30_Witness ==
    /\ frame.cur # NoSlice
    /\ frame.queue # << >>
    /\ \E t \in Callers : frame.hand[t] # NoSlice
    /\ \E i \in 1..Len(OwnHeld) : OwnHeld[i] # NoSlice /\ OwnHeld[i].arr \in frame.evicted

====
